---- MODULE Spec2Model ----
(***************************************************************************)
(* pastevault: the paste lifecycle and access-control core.                *)
(*                                                                         *)
(* The specifications share the variables below:                           *)
(*   Spec        the paste store and its HTTP handlers under a clock       *)
(*   SpecOwner   accounts and the pastes they own                          *)
(*   SpecRepo    the repository's writes and the sweep under the clock     *)
(*   SpecExpiry  Validator.ValidateExpiryDuration applied to bounded       *)
(*               expiry lexemes                                            *)
(*   SpecAlloc   IDGenerator.GenerateWithCollisionCheck applied to bounded *)
(*               existence predicates                                      *)
(*   SpecIssue   successive allocator calls against one predicate          *)
(*   SpecLimiter the RateLimiter under two request goroutines and its      *)
(*               cleanup goroutine                                         *)
(*   SpecSweeper the CleanupService's Start, Stop and sweep goroutines     *)
(*               (SpecSweeperFair: the same under fair scheduling)         *)
(*   SpecToken   the TokenManager, RequireAuth and the refresh handler     *)
(*   SpecSession tokens issued, rotated and used across logouts            *)
(*   SpecRegister two Register requests racing on the users table          *)
(*   SpecValidate ValidateUserRegistrationRequest on bounded input         *)
(*   SpecLogin   registrations and Login requests on one users table       *)
(*   SpecCreate  two Create requests racing on the pastes table            *)
(*   SpecRoutes  the paste routes behind the limiter middlewares           *)
(*   SpecBrowser one browser tab of the frontend against the API           *)
(*   SpecUserPastes the list of useUserPastes under overlapping deletes    *)
(* The pastevault frontend (React) is modelled by the last two.            *)
(* Strings the code inspects character by character (expiry lexemes, paste *)
(* ids) are sequences of one-character strings.  Optional (pointer) fields *)
(* are Nil (<<>>) or Some(x) (<<x>>).                                      *)
(***************************************************************************)
EXTENDS Integers, Sequences, FiniteSets, TLC

VARIABLES
    pastes,       \* table pastes: function from the stored ids to their rows
    users,        \* table users: the set of account ids
    nextUserID,   \* AUTOINCREMENT sequence of users.id
    now,          \* the server clock, in milliseconds
    ticks,        \* number of clock advances so far
    resp,         \* the request served last and its response
    gone,         \* ids whose paste was deleted, swept or read as expired
    expiry_in,    \* SpecExpiry: the lexeme handed to ValidateExpiryDuration
    expiry_out,   \* SpecExpiry: its result
    alloc_chk,    \* SpecAlloc: verdict of the existence predicate per attempt
    alloc_out,    \* SpecAlloc: result of GenerateWithCollisionCheck
    issued,       \* SpecIssue: the ids successive allocator calls returned
    issue_pred,   \* SpecIssue: the existence predicate the calls are given
    visitors,     \* RateLimiter.visitors: client key -> visitor record
    rl_mu,        \* RateLimiter.mu: Nil when free, else its holder
    rl_pc,        \* per request goroutine: its place in an allow... call
    rl_cl,        \* the cleanupVisitors goroutine's place in its loop
    rl_tick,      \* whether a tick waits in the cleanup ticker's channel
    rl_now,       \* the clock the limiter reads, in half windows
    rl_allowed,   \* per client and kind: calls answered true since the last sweep
    rl_since,     \* per client: sweeps processed since its last call
    rl_ev,        \* the limiter's last event
    cs_g,         \* CleanupService: the goroutines Start launched, by place
    cs_tk,        \* CleanupService: the tickers Start made
    cs_closed,    \* CleanupService: whether stopChan is closed
    cs_ret,       \* CleanupService: Stop calls that have returned
    cs_panic,     \* CleanupService: whether a call has panicked
    cs_ev,        \* CleanupService: outcome of the last DeleteExpired call
    tm,           \* TokenManager: its accessSecret and refreshSecret
    tk_issued,    \* the token pairs GenerateTokenPair has returned
    tk_out,       \* the token operation served last and its outcome
    tk_rot,       \* per refresh token: the rotations it has been accepted for
    tk_logout,    \* Logout calls answered so far
    reg_users,    \* SpecRegister: column username of table users, by row id
    reg_pc,       \* SpecRegister: per Register goroutine, its place
    reg_out,      \* SpecRegister: per Register goroutine, its last response
    val_out,      \* SpecValidate: the request validated last and its errors
    lg_users,     \* SpecLogin: table users, username -> password_hash
    lg_out,       \* SpecLogin: the last two Login requests and their responses
    cc_pc,        \* SpecCreate: per Create goroutine, its place
    cc_out,       \* SpecCreate: per Create goroutine, its request and response
    rt_req,       \* SpecRoutes: the request waiting in a limiter middleware
    rt_served,    \* SpecRoutes: responses with content or a password verdict
                  \* since the last sweep
    rl_recent,    \* SpecRoutes: per kind, the calls allowed at this clock
                  \* reading and at the one before
    ls,           \* SpecBrowser: localStorage of the browser tab
    fe_auth,      \* SpecBrowser: the state of useAuth
    fe_page,      \* SpecBrowser: the location and the state of the page
    fe_ev,        \* SpecBrowser: the last thing the user did and what
                  \* localStorage held before it
    up_listed,    \* SpecUserPastes: the list fetchUserPastes brought
    up_pastes,    \* SpecUserPastes: the state pastes of useUserPastes
    up_calls,     \* SpecUserPastes: the deletePaste calls not yet settled
    up_deleted    \* SpecUserPastes: the ids whose DELETE succeeded

vars == <<pastes, users, nextUserID, now, ticks, resp, gone,
          expiry_in, expiry_out, alloc_chk, alloc_out, issued, issue_pred,
          visitors, rl_mu, rl_pc, rl_cl, rl_tick, rl_now, rl_allowed,
          rl_since, rl_ev, cs_g, cs_tk, cs_closed, cs_ret, cs_panic, cs_ev,
          tm, tk_issued, tk_out, tk_rot, tk_logout,
          reg_users, reg_pc, reg_out, val_out, lg_users, lg_out,
          cc_pc, cc_out, rt_req, rt_served, rl_recent,
          ls, fe_auth, fe_page, fe_ev,
          up_listed, up_pastes, up_calls, up_deleted>>

storeVars == <<pastes, users, nextUserID, now, ticks, resp, gone>>
expiryVars == <<expiry_in, expiry_out>>
allocVars == <<alloc_chk, alloc_out>>
issueVars == <<issued, issue_pred>>
limiterVars == <<visitors, rl_mu, rl_pc, rl_cl, rl_tick, rl_now, rl_allowed,
                 rl_since, rl_ev>>
sweeperVars == <<cs_g, cs_tk, cs_closed, cs_ret, cs_panic, cs_ev>>
tokenVars == <<tm, tk_issued, tk_out>>
sessionVars == <<tk_rot, tk_logout>>
regVars == <<reg_users, reg_pc, reg_out>>
validateVars == <<val_out>>
loginVars == <<lg_users, lg_out>>
createVars == <<cc_pc, cc_out>>
routeVars == <<rt_req, rt_served, rl_recent>>
browserVars == <<ls, fe_auth, fe_page, fe_ev>>
userPastesVars == <<up_listed, up_pastes, up_calls, up_deleted>>
extVars == <<sessionVars, regVars, validateVars, loginVars, createVars, routeVars,
             browserVars, userPastesVars>>
auxVars == <<issueVars, limiterVars, sweeperVars, tokenVars, extVars>>

Nil == <<>>
Some(x) == <<x>>
Range(f) == {f[i] : i \in DOMAIN f}

\* ------------------------------------------------------------------------
\* Bounds
\* ------------------------------------------------------------------------
MaxLen == 4          \* longest expiry lexeme drawn from ExpiryAlphabet
MaxTicks == 1        \* clock advances in one behaviour
MaxUsers == 2        \* accounts ever registered in one behaviour
MaxIssued == 4       \* successive allocator calls that return an id
pasteLimit == 1      \* RateLimiter.pasteLimit the limiter is built with
retrievalLimit == 2  \* RateLimiter.retrievalLimit the limiter is built with
MaxStarts == 2       \* calls of CleanupService.Start in one behaviour
MaxStops == 2        \* calls of CleanupService.Stop in one behaviour
MaxPairs == 2        \* token pairs issued in one behaviour
MaxRotations == 2    \* accepted rotations of one refresh token
MaxLogouts == 1      \* Logout calls in one behaviour
MaxServed == 3       \* responses with content or a verdict between two sweeps
MaxRouteTime == 2    \* SpecRoutes: last reading of the limiter clock, in half windows
MaxRlTime == 6       \* last reading of the limiter's clock, in half windows

\* ------------------------------------------------------------------------
\* Durations.  time.Duration counts nanoseconds in an int64; the lexemes of
\* the model denote whole milliseconds, kept as sign, seconds and
\* milliseconds so that every value stays inside TLC's integers.
\* ------------------------------------------------------------------------
Dur(neg, sec, msec) == [neg |-> neg, sec |-> sec, msec |-> msec]

DurZero == Dur(FALSE, 0, 0)

DurIsZero(d) == d.sec = 0 /\ d.msec = 0

\* magnitude addition with carry
DurAdd(a, b) ==
    LET m == a.msec + b.msec
    IN  Dur(FALSE, a.sec + b.sec + (m \div 1000), m % 1000)

\* a < b on signed durations
DurLess(a, b) ==
    LET an == a.neg /\ ~DurIsZero(a)
        bn == b.neg /\ ~DurIsZero(b)
        magLess(x, y) == x.sec < y.sec \/ (x.sec = y.sec /\ x.msec < y.msec)
    IN  IF an /\ ~bn THEN TRUE
        ELSE IF ~an /\ bn THEN FALSE
        ELSE IF an THEN magLess(b, a)
        ELSE magLess(a, b)

Minute == Dur(FALSE, 60, 0)
SecondsPerDay == 86400
MaxExpiry == Dur(FALSE, 365 * SecondsPerDay, 0)
DefaultExpiry == Dur(FALSE, 24 * 3600, 0)

\* ------------------------------------------------------------------------
\* Lexemes
\* ------------------------------------------------------------------------
Digits == {"0", "1", "2", "3", "4", "5", "6", "7", "8", "9"}

DigitVal(c) ==
    CASE c = "0" -> 0 [] c = "1" -> 1 [] c = "2" -> 2 [] c = "3" -> 3
      [] c = "4" -> 4 [] c = "5" -> 5 [] c = "6" -> 6 [] c = "7" -> 7
      [] c = "8" -> 8 [] c = "9" -> 9

Tail2(s, n) == SubSeq(s, n + 1, Len(s))

\* number of leading characters of s that are decimal digits
RECURSIVE LeadDigits(_)
LeadDigits(s) ==
    IF s = <<>> \/ s[1] \notin Digits THEN 0 ELSE 1 + LeadDigits(Tail(s))

\* value of a string of decimal digits
RECURSIVE NumVal(_)
NumVal(s) ==
    IF s = <<>> THEN 0
    ELSE 10 * NumVal(SubSeq(s, 1, Len(s) - 1)) + DigitVal(s[Len(s)])

\* fmt.Sscanf(s, "%d", &n): an optional sign, then one or more decimal
\* digits; whatever follows the digits is left unread and is no error.
Sscanf_d(s) ==
    LET signed == s # <<>> /\ s[1] \in {"-", "+"}
        body == IF signed THEN Tail(s) ELSE s
        n == LeadDigits(body)
    IN  IF n = 0 THEN [ok |-> FALSE, neg |-> FALSE, val |-> 0]
        ELSE [ok |-> TRUE,
              neg |-> signed /\ s[1] = "-",
              val |-> NumVal(SubSeq(body, 1, n))]

\* time.unitMap, in seconds and milliseconds, for the units the lexemes of
\* the model can spell
KnownUnits == {<<"m", "s">>, <<"s">>, <<"m">>, <<"h">>}

UnitDur(u) ==
    CASE u = <<"m", "s">> -> Dur(FALSE, 0, 1)
      [] u = <<"s">> -> Dur(FALSE, 1, 0)
      [] u = <<"m">> -> Dur(FALSE, 60, 0)
      [] u = <<"h">> -> Dur(FALSE, 3600, 0)

\* v units of u
DurScale(v, u) ==
    LET total == v * UnitDur(u).msec
    IN  Dur(FALSE, v * UnitDur(u).sec + (total \div 1000), total % 1000)

\* number of leading characters of s that are no digit (a unit name)
RECURSIVE LeadUnit(_)
LeadUnit(s) ==
    IF s = <<>> \/ s[1] \in Digits THEN 0 ELSE 1 + LeadUnit(Tail(s))

\* the loop of time.ParseDuration over ([0-9]+[a-z]+)+ : acc is the sum so far
RECURSIVE ParseGroups(_, _)
ParseGroups(s, acc) ==
    IF s = <<>> THEN [ok |-> TRUE, d |-> acc]
    ELSE LET n == LeadDigits(s)
             s1 == Tail2(s, n)
             k == LeadUnit(s1)
             u == SubSeq(s1, 1, k)
         IN  IF n = 0 THEN [ok |-> FALSE, d |-> DurZero]        \* no digits
             ELSE IF k = 0 THEN [ok |-> FALSE, d |-> DurZero]   \* missing unit
             ELSE IF u \notin KnownUnits THEN [ok |-> FALSE, d |-> DurZero]
             ELSE ParseGroups(Tail2(s1, k), DurAdd(acc, DurScale(NumVal(SubSeq(s, 1, n)), u)))

\* time.ParseDuration: [-+]?([0-9]+unit)+, and the bare "0"
ParseDuration(s) ==
    LET signed == s # <<>> /\ s[1] \in {"-", "+"}
        neg == signed /\ s[1] = "-"
        body == IF signed THEN Tail(s) ELSE s
    IN  IF body = <<"0">> THEN [ok |-> TRUE, d |-> DurZero]
        ELSE IF body = <<>> THEN [ok |-> FALSE, d |-> DurZero]
        ELSE LET r == ParseGroups(body, DurZero)
             IN  IF r.ok THEN [ok |-> TRUE, d |-> Dur(neg, r.d.sec, r.d.msec)]
                 ELSE r

Never == <<"n", "e", "v", "e", "r">>

\* results of ValidateExpiryDuration: (nil, nil), (&d, nil), (nil, &err)
NoExpiry == [kind |-> "none", d |-> DurZero, msg |-> "ok"]
Expiry(d) == [kind |-> "duration", d |-> d, msg |-> "ok"]
ExpiryError(m) == [kind |-> "error", d |-> DurZero, msg |-> m]

\* Validator.ValidateExpiryDuration
ValidateExpiryDuration(duration) ==
    IF duration = <<>> THEN NoExpiry
    ELSE IF duration = Never THEN NoExpiry
    ELSE IF Len(duration) > 1 /\ duration[Len(duration)] = "d"
    THEN LET days == Sscanf_d(SubSeq(duration, 1, Len(duration) - 1))
             hours == Dur(days.neg, days.val * SecondsPerDay, 0)
         IN  IF ~days.ok THEN ExpiryError("format")
             ELSE IF DurLess(MaxExpiry, hours) THEN ExpiryError("max")
             ELSE Expiry(hours)
    ELSE LET p == ParseDuration(duration)
         IN  IF ~p.ok THEN ExpiryError("format")
             ELSE IF DurLess(p.d, Minute) THEN ExpiryError("min")
             ELSE IF DurLess(MaxExpiry, p.d) THEN ExpiryError("max")
             ELSE Expiry(p.d)

\* ------------------------------------------------------------------------
\* Identifiers
\* ------------------------------------------------------------------------
maxRetries == 10
IDLength == 6

Charset ==
    {"a", "b", "c", "d", "e", "f", "g", "h", "i", "j", "k", "l", "m",
     "n", "o", "p", "q", "r", "s", "t", "u", "v", "w", "x", "y", "z",
     "A", "B", "C", "D", "E", "F", "G", "H", "I", "J", "K", "L", "M",
     "N", "O", "P", "Q", "R", "S", "T", "U", "V", "W", "X", "Y", "Z"} \cup Digits

\* the ids IDGenerator.Generate draws in the model (two of the 62^6)
IDs == {<<"a", "b", "c", "1", "2", "3">>, <<"d", "e", "f", "4", "5", "6">>}

\* a malformed id a request may present
BadID == <<"b", "a", "d", "!">>

\* Validator.ValidateID: required, exactly six characters, alphanumeric
ValidateID(id) ==
    /\ id # <<>>
    /\ Len(id) >= IDLength
    /\ Len(id) <= IDLength
    /\ \A i \in 1..Len(id) : id[i] \in Charset

\* IDGenerator.IsValidID: the generator's length, the generator's charset
IsValidID(id) ==
    /\ Len(id) = IDLength
    /\ \A i \in 1..Len(id) : id[i] \in Charset

\* results of GenerateWithCollisionCheck; calls counts the calls it made
\* of the predicate
AllocOk(id, calls) == [id |-> Some(id), err |-> "none", calls |-> calls]
AllocErr(e, calls) == [id |-> Nil, err |-> e, calls |-> calls]

\* GenerateWithCollisionCheck returning its first draw, whatever the
\* predicate answers about it
RECURSIVE GenerateWithCollisionCheckFirstDraw(_, _)
GenerateWithCollisionCheckFirstDraw(i, existsChecker) ==
    IF i >= maxRetries
    THEN {AllocErr("exhausted", i)}
    ELSE {AllocErr("generate", i)}
         \cup UNION {
              LET exists == existsChecker[i + 1][id]
              IN  IF exists = "error" THEN {AllocErr("check", i + 1)}
                  ELSE {AllocOk(id, i + 1)}
              : id \in IDs }

\* GenerateWithCollisionCheck with the loop bound one short
RECURSIVE GenerateWithCollisionCheckOneShort(_, _)
GenerateWithCollisionCheckOneShort(i, existsChecker) ==
    IF i >= maxRetries - 1
    THEN {AllocErr("exhausted", i)}
    ELSE LET retry == GenerateWithCollisionCheckOneShort(i + 1, existsChecker)
         IN  {AllocErr("generate", i)}
             \cup UNION {
                  LET exists == existsChecker[i + 1][id]
                  IN  IF exists = "error" THEN {AllocErr("check", i + 1)}
                      ELSE IF exists = "false" THEN {AllocOk(id, i + 1)}
                      ELSE retry
                  : id \in IDs }

\* IDGenerator.GenerateWithCollisionCheck from loop index i on: the set of
\* results the loop can produce.  Generate returns any id or fails (the
\* random source can fail); existsChecker[k][id] is what the predicate
\* answers to its k-th call, made with id: "true", "false" or "error".
RECURSIVE GenerateWithCollisionCheck(_, _)
GenerateWithCollisionCheck(i, existsChecker) ==
    IF i >= maxRetries
    THEN {AllocErr("exhausted", i)}
    ELSE LET retry == GenerateWithCollisionCheck(i + 1, existsChecker)
         IN  {AllocErr("generate", i)}
             \cup UNION {
                  LET exists == existsChecker[i + 1][id]
                  IN  IF exists = "error" THEN {AllocErr("check", i + 1)}
                      ELSE IF exists = "false" THEN {AllocOk(id, i + 1)}
                      ELSE retry
                  : id \in IDs }

\* ------------------------------------------------------------------------
\* Passwords and hashes
\* ------------------------------------------------------------------------
NoPassword == <<>>
Secret1 == <<"s", "e", "c", "r", "e", "t", "1">>
Wrong1 == <<"w", "r", "o", "n", "g", "1">>

\* utils.HashPasswordWithCost: a bcrypt hash, which VerifyPassword matches
\* against the password it was made from (the salt is left out)
HashPasswordWithCost(password, cost) == [alg |-> "bcrypt", cost |-> cost, of |-> password]

\* the empty string where a hash is expected
EmptyHash == [alg |-> "", cost |-> 0, of |-> <<>>]

\* utils.VerifyPassword: TRUE when it returns nil
VerifyPassword(password, hash) ==
    /\ password # <<>>
    /\ hash # EmptyHash
    /\ hash.of = password

\* ------------------------------------------------------------------------
\* Time.  The clock counts milliseconds.  SQLite's datetime('now') and
\* CURRENT_TIMESTAMP are UTC text with whole seconds, 'YYYY-MM-DD HH:MM:SS';
\* the driver binds a time.Time as text with its fraction and zone,
\* 'YYYY-MM-DD HH:MM:SS.fff+00:00' (the server runs in UTC), and SQLite
\* compares the two as text.
\* ------------------------------------------------------------------------
Epoch == 2 * SecondsPerDay * 1000 + 500

DurMs(d) == (IF d.neg THEN -1 ELSE 1) * (d.sec * 1000 + d.msec)

\* time.Time.Add
TimeAdd(t, d) == t + DurMs(d)

\* the second a clock reading falls in
SecondOf(t) == t \div 1000

\* CURRENT_TIMESTAMP read back as a time.Time
CurrentTimestamp(t) == SecondOf(t) * 1000

\* text(expires_at) <= datetime('now'): the bound text is the longer one, so
\* with equal seconds it is the greater
SqlLeqNow(expiresAt, t) == SecondOf(expiresAt) < SecondOf(t)

\* text(expires_at) > datetime('now')
SqlGtNow(expiresAt, t) == ~SqlLeqNow(expiresAt, t)

\* ------------------------------------------------------------------------
\* The paste store
\* ------------------------------------------------------------------------

\* a row of table pastes (models.Paste; language plays no part here)
Paste(id, content, createdAt, expiresAt, passwordHash, userID) ==
    [id |-> id, content |-> content, created_at |-> createdAt,
     expires_at |-> expiresAt, password_hash |-> passwordHash, user_id |-> userID]

\* PasteRepository.Exists, as the predicate GenerateWithCollisionCheck calls
PasteExists ==
    [k \in 1..maxRetries |->
        [id \in IDs |-> IF id \in DOMAIN pastes THEN "true" ELSE "false"]]

\* Paste.IsExpired at clock reading t
IsExpired(p, t) ==
    IF p.expires_at = Nil THEN FALSE ELSE t > p.expires_at[1]

\* Paste.HasPassword
HasPassword(p) == p.password_hash # Nil /\ p.password_hash[1] # EmptyHash

\* the store with row p inserted / with row id removed
Inserted(p) == [i \in DOMAIN pastes \cup {p.id} |-> IF i = p.id THEN p ELSE pastes[i]]
Removed(ids) == [i \in DOMAIN pastes \ ids |-> pastes[i]]

\* callers: no valid bearer token (Nil) or the account a valid token names
Callers == {Nil} \cup {Some(u) : u \in 1..(nextUserID - 1)}

Response(op, id, caller, pw, expiry, status, content) ==
    [op |-> op, id |-> id, caller |-> caller, pw |-> pw, expiry |-> expiry,
     status |-> status, content |-> content]

\* the expiry lexemes CreatePaste is called with in Spec
ExpiryInputs == {<<>>, Never, <<"-", "1", "d">>, <<"3", "0", "s">>}

\* Validator.ValidateCreatePasteRequestFull: TRUE when it reports no error
ValidateCreatePasteRequestFull(content, password, expiry) ==
    /\ content # ""
    /\ password # <<>> => (Len(password) >= 4 /\ Len(password) <= 128)
    /\ expiry # <<>> => ValidateExpiryDuration(expiry).kind # "error"

\* the expires_at PasteHandler.Create computes at clock reading t
CreateExpiresAt(expiry, t) ==
    IF expiry # <<>>
    THEN LET v == ValidateExpiryDuration(expiry)
         IN  IF v.kind = "duration" THEN Some(TimeAdd(t, v.d)) ELSE Nil
    ELSE Some(TimeAdd(t, DefaultExpiry))

\* h.idGenerator.GenerateWithCollisionCheck(h.pasteRepo.Exists): the ids and
\* errors it can return against the store as it is
AllocateID ==
    {[id |-> r.id, err |-> r.err] : r \in GenerateWithCollisionCheck(0, PasteExists)}

\* PasteHandler.Create behind POST /api/paste (no auth middleware; the
\* handler reads no caller identity and leaves paste.UserID nil)
\* alloc is what the GenerateWithCollisionCheck call returns when reached
Create(alloc, caller, content, password, expiry) ==
    /\ IF ~ValidateCreatePasteRequestFull(content, password, expiry)
       THEN /\ resp' = Response("Create", Nil, caller, <<>>, expiry, "validation_failed", Nil)
            /\ UNCHANGED pastes
       ELSE LET r == alloc IN
              IF r.err # "none"
              THEN /\ resp' = Response("Create", Nil, caller, <<>>, expiry, "id_generation_failed", Nil)
                   /\ UNCHANGED pastes
              ELSE LET hash == IF password # <<>>
                               THEN Some(HashPasswordWithCost(password, 12))
                               ELSE Nil
                       p == Paste(r.id[1], content, CurrentTimestamp(now),
                                  CreateExpiresAt(expiry, now), hash, Nil)
                   IN  /\ pastes' = Inserted(p)
                       /\ resp' = Response("Create", Some(p.id), caller, <<>>, expiry, "created", Nil)
    /\ UNCHANGED <<users, nextUserID, now, ticks, gone>>

\* GetByID with the password comparison left out: any password opens
GetByIDOutcomeAnyPassword(id, password) ==
    IF ~ValidateID(id) THEN <<"invalid_id", Nil>>
    ELSE IF id \notin DOMAIN pastes THEN <<"paste_not_found", Nil>>
    ELSE IF IsExpired(pastes[id], now) THEN <<"paste_expired", Nil>>
    ELSE IF HasPassword(pastes[id]) /\ password = <<>> THEN <<"password_required", Nil>>
    ELSE <<"ok", Some(pastes[id].content)>>

\* PasteHandler.GetByID: the status it answers and the content it returns
GetByIDOutcome(id, password) ==
    IF ~ValidateID(id) THEN <<"invalid_id", Nil>>
    ELSE IF id \notin DOMAIN pastes THEN <<"paste_not_found", Nil>>
    ELSE IF IsExpired(pastes[id], now) THEN <<"paste_expired", Nil>>
    ELSE IF HasPassword(pastes[id]) /\ password = <<>> THEN <<"password_required", Nil>>
    ELSE IF HasPassword(pastes[id]) /\ ~VerifyPassword(password, pastes[id].password_hash[1])
         THEN <<"invalid_password", Nil>>
    ELSE <<"ok", Some(pastes[id].content)>>

\* PasteHandler.GetRaw
GetRawOutcome(id, password) ==
    IF ~ValidateID(id) THEN <<"invalid_id", Nil>>
    ELSE IF id \notin DOMAIN pastes THEN <<"paste_not_found", Nil>>
    ELSE IF IsExpired(pastes[id], now) THEN <<"paste_expired", Nil>>
    ELSE IF HasPassword(pastes[id]) /\ password = <<>> THEN <<"password_required", Nil>>
    ELSE IF HasPassword(pastes[id]) /\ ~VerifyPassword(password, pastes[id].password_hash[1])
         THEN <<"invalid_password", Nil>>
    ELSE <<"ok", Some(pastes[id].content)>>

\* PasteHandler.GetByIDWithPassword
UnlockOutcome(id, password) ==
    IF ~ValidateID(id) THEN <<"invalid_id", Nil>>
    ELSE IF password = <<>> THEN <<"password_required", Nil>>
    ELSE IF id \notin DOMAIN pastes THEN <<"paste_not_found", Nil>>
    ELSE IF IsExpired(pastes[id], now) THEN <<"paste_expired", Nil>>
    ELSE IF ~HasPassword(pastes[id]) THEN <<"password_not_required", Nil>>
    ELSE IF ~VerifyPassword(password, pastes[id].password_hash[1])
         THEN <<"invalid_password", Nil>>
    ELSE <<"ok", Some(pastes[id].content)>>

Served(op, id, password, out) ==
    /\ resp' = Response(op, Some(id), Nil, password, <<>>, out[1], out[2])
    /\ gone' = IF out[1] = "paste_expired" THEN gone \cup {id} ELSE gone
    /\ UNCHANGED <<pastes, users, nextUserID, now, ticks>>

GetByID(id, password) == Served("GetByID", id, password, GetByIDOutcome(id, password))

GetRaw(id, password) == Served("GetRaw", id, password, GetRawOutcome(id, password))

GetByIDWithPassword(id, password) ==
    Served("GetByIDWithPassword", id, password, UnlockOutcome(id, password))

\* PasteHandler.Delete behind AuthMiddleware.RequireAuth
Delete(caller, id) ==
    /\ IF caller = Nil
       THEN /\ resp' = Response("Delete", Some(id), caller, <<>>, <<>>, "unauthorized", Nil)
            /\ UNCHANGED <<pastes, gone>>
       ELSE IF ~ValidateID(id)
       THEN /\ resp' = Response("Delete", Some(id), caller, <<>>, <<>>, "invalid_id", Nil)
            /\ UNCHANGED <<pastes, gone>>
       ELSE IF id \notin DOMAIN pastes
       THEN /\ resp' = Response("Delete", Some(id), caller, <<>>, <<>>, "paste_not_found", Nil)
            /\ UNCHANGED <<pastes, gone>>
       ELSE /\ pastes' = Removed({id})
            /\ gone' = gone \cup {id}
            /\ resp' = Response("Delete", Some(id), caller, <<>>, <<>>, "no_content", Nil)
    /\ UNCHANGED <<users, nextUserID, now, ticks>>

\* ------------------------------------------------------------------------
\* RateLimiter.  Request goroutines call allowPasteCreation and
\* allowPasteRetrieval; the cleanupVisitors goroutine sweeps the map at
\* every tick of its ticker.  All of them take rl.mu.  The clock counts
\* half windows; the ticker fires at every multiple of window, and the
\* cleanup goroutine has processed a tick before the next one fires.
\* ------------------------------------------------------------------------
window == 2

Clients == {"ip1", "ip2"}
Kinds == {"paste", "retrieval"}

\* rl.pasteLimit / rl.retrievalLimit, by kind of call
Limit(kind) == IF kind = "paste" THEN pasteLimit ELSE retrievalLimit

\* v.pasteCount / v.retrievalCount, by kind of call
Count(v, kind) == IF kind = "paste" THEN v.pasteCount ELSE v.retrievalCount

\* &visitor{lastSeen: time.Now()}
NewVisitor(t) == [pasteCount |-> 0, retrievalCount |-> 0, lastSeen |-> t]

\* the map after getOrCreateVisitor(ip) at clock reading t
getOrCreateVisitor(ip, t) ==
    IF ip \in DOMAIN visitors
    THEN visitors
    ELSE [c \in DOMAIN visitors \cup {ip} |->
             IF c = ip THEN NewVisitor(t) ELSE visitors[c]]

\* the update of an allowed call touching both counters
CountedBoth(v, kind, t) ==
    [v EXCEPT !.pasteCount = @ + 1, !.retrievalCount = @ + 1, !.lastSeen = t]

\* v after v.pasteCount++ (v.retrievalCount++) and v.lastSeen = time.Now()
Counted(v, kind, t) ==
    IF kind = "paste"
    THEN [v EXCEPT !.pasteCount = @ + 1, !.lastSeen = t]
    ELSE [v EXCEPT !.retrievalCount = @ + 1, !.lastSeen = t]

\* a Lock that returns whether or not the mutex is held
MuLockOpen(h) == rl_mu' = Some(h)

\* rl.mu.Lock() by holder h: returns once no one holds the mutex
MuLock(h) ==
    /\ rl_mu = Nil
    /\ rl_mu' = Some(h)

\* rl.mu.Unlock()
MuUnlock == rl_mu' = Nil

RlIdle == [pc |-> "idle", kind |-> "none", ip |-> "none", res |-> FALSE]
RlOther == [kind |-> "other", removed |-> {}]

\* NewRateLimiter: an empty map, the cleanup goroutine waiting for a tick
InitLimiter ==
    /\ visitors = <<>>
    /\ rl_mu = Nil
    /\ rl_pc = [th \in {1, 2} |-> RlIdle]
    /\ rl_cl = "recv"
    /\ rl_tick = FALSE
    /\ rl_now = 0
    /\ rl_allowed = [c \in Clients |-> [k \in Kinds |-> 0]]
    /\ rl_since = [c \in Clients |-> 0]
    /\ rl_ev = RlOther

\* goroutine th enters allowPasteCreation(ip) / allowPasteRetrieval(ip)
AllowCall(th, kind, ip) ==
    /\ rl_pc[th].pc = "idle"
    /\ rl_pc' = [rl_pc EXCEPT ![th] = [pc |-> "lock", kind |-> kind, ip |-> ip, res |-> FALSE]]
    /\ rl_ev' = RlOther
    /\ UNCHANGED <<visitors, rl_mu, rl_cl, rl_tick, rl_now, rl_allowed, rl_since>>

\* rl.mu.Lock()
AllowLock(th) ==
    /\ rl_pc[th].pc = "lock"
    /\ MuLock(th)
    /\ rl_pc' = [rl_pc EXCEPT ![th].pc = "check"]
    /\ rl_ev' = RlOther
    /\ UNCHANGED <<visitors, rl_cl, rl_tick, rl_now, rl_allowed, rl_since>>

\* v := rl.getOrCreateVisitor(ip); if v.count >= rl.limit { return false }
AllowCheck(th) ==
    /\ rl_pc[th].pc = "check"
    /\ LET ip == rl_pc[th].ip
           after == getOrCreateVisitor(ip, rl_now)
       IN  /\ visitors' = after
           /\ rl_since' = [rl_since EXCEPT ![ip] = 0]
           /\ IF Count(after[ip], rl_pc[th].kind) >= Limit(rl_pc[th].kind)
              THEN rl_pc' = [rl_pc EXCEPT ![th].pc = "ret", ![th].res = FALSE]
              ELSE rl_pc' = [rl_pc EXCEPT ![th].pc = "count"]
    /\ rl_ev' = RlOther
    /\ UNCHANGED <<rl_mu, rl_cl, rl_tick, rl_now, rl_allowed>>

\* v.count++; v.lastSeen = time.Now(); return true
\* (v is a pointer: when the entry has left the map the map is not touched)
AllowCount(th) ==
    /\ rl_pc[th].pc = "count"
    /\ LET ip == rl_pc[th].ip
           kind == rl_pc[th].kind
       IN  /\ visitors' = IF ip \in DOMAIN visitors
                          THEN [visitors EXCEPT ![ip] = Counted(@, kind, rl_now)]
                          ELSE visitors
           /\ rl_allowed' = [rl_allowed EXCEPT ![ip][kind] = @ + 1]
    /\ rl_pc' = [rl_pc EXCEPT ![th].pc = "ret", ![th].res = TRUE]
    /\ rl_ev' = RlOther
    /\ UNCHANGED <<rl_mu, rl_cl, rl_tick, rl_now, rl_since>>

\* the deferred rl.mu.Unlock(); the call has returned
AllowReturn(th) ==
    /\ rl_pc[th].pc = "ret"
    /\ MuUnlock
    /\ rl_pc' = [rl_pc EXCEPT ![th] = RlIdle]
    /\ rl_ev' = RlOther
    /\ UNCHANGED <<visitors, rl_cl, rl_tick, rl_now, rl_allowed, rl_since>>

\* the clock moves on by half a window; at a multiple of window the ticker
\* sends a tick, which the cleanup goroutine is waiting for
RlAdvance ==
    /\ rl_now < MaxRlTime
    /\ rl_now' = rl_now + 1
    /\ IF (rl_now + 1) % window = 0
       THEN /\ rl_cl = "recv"
            /\ ~rl_tick
            /\ rl_tick' = TRUE
       ELSE UNCHANGED rl_tick
    /\ rl_ev' = RlOther
    /\ UNCHANGED <<visitors, rl_mu, rl_pc, rl_cl, rl_allowed, rl_since>>

\* for range ticker.C
CleanupRecv ==
    /\ rl_cl = "recv"
    /\ rl_tick
    /\ rl_tick' = FALSE
    /\ rl_cl' = "lock"
    /\ rl_ev' = RlOther
    /\ UNCHANGED <<visitors, rl_mu, rl_pc, rl_now, rl_allowed, rl_since>>

\* rl.mu.Lock() in cleanupVisitors
CleanupLock ==
    /\ rl_cl = "lock"
    /\ MuLock("cleanup")
    /\ rl_cl' = "sweep"
    /\ rl_ev' = RlOther
    /\ UNCHANGED <<visitors, rl_pc, rl_tick, rl_now, rl_allowed, rl_since>>

\* a cutoff test that never finds an entry old enough
StaleNever(v, t) == FALSE

\* v.lastSeen.Before(cutoff), cutoff := time.Now().Add(-rl.window) read at t
Stale(v, t) == v.lastSeen < t - window

\* the body of the loop of cleanupVisitors: entries last seen before the
\* cutoff are deleted, the others have both counters reset; then Unlock
CleanupSweep ==
    /\ rl_cl = "sweep"
    /\ LET stale == {c \in DOMAIN visitors : Stale(visitors[c], rl_now)}
       IN  /\ visitors' = [c \in DOMAIN visitors \ stale |->
                              [visitors[c] EXCEPT !.pasteCount = 0, !.retrievalCount = 0]]
           /\ rl_ev' = [kind |-> "sweep",
                        removed |-> {<<c, visitors[c].lastSeen>> : c \in stale}]
    /\ MuUnlock
    /\ rl_cl' = "recv"
    /\ rl_allowed' = [c \in Clients |-> [k \in Kinds |-> 0]]
    /\ rl_since' = [c \in Clients |-> IF rl_since[c] < 3 THEN rl_since[c] + 1 ELSE 3]
    /\ UNCHANGED <<rl_pc, rl_tick, rl_now>>

\* ------------------------------------------------------------------------
\* TokenManager: signed access and refresh tokens
\* ------------------------------------------------------------------------
\* the strings NewTokenManager is handed as accessSecret and refreshSecret
Secrets == {"s1", "s2"}

\* NewTokenManager keeps the two secrets as it receives them
NewTokenManager(accessSecret, refreshSecret) ==
    [access |-> accessSecret, refresh |-> refreshSecret]

AccessTokenDuration == Dur(FALSE, 15 * 60, 0)
RefreshTokenDuration == Dur(FALSE, 7 * SecondsPerDay, 0)

\* jwt.NewNumericDate: the instant cut to whole seconds
NewNumericDate(t) == SecondOf(t)

\* the Username column of account u; a claim set without the field decodes
\* to the empty string
Username(u) == <<"u", u>>
NoUsername == <<>>

\* a signed token: its claims and the key of its HS256 signature.  Field
\* use records which half of a pair the token was issued as; it is not part
\* of the token and no validator reads it
SignedToken(use, u, name, t, d, key) ==
    [use |-> use, sig |-> key, user_id |-> u, username |-> name,
     exp |-> NewNumericDate(TimeAdd(t, d)), nbf |-> NewNumericDate(t)]

\* TokenManager.GenerateTokenPair at clock reading t
GenerateTokenPair(u, name, t) ==
    [access |-> SignedToken("access", u, name, t, AccessTokenDuration, tm.access),
     refresh |-> SignedToken("refresh", u, NoUsername, t, RefreshTokenDuration, tm.refresh),
     expires_at |-> NewNumericDate(TimeAdd(t, AccessTokenDuration))]

\* jwt.ParseWithClaims with a key function returning key: the signature
\* verifies under key and the registered claims hold at t
ParseWithClaims(tok, key, t) ==
    /\ tok.sig = key
    /\ t < tok.exp * 1000
    /\ t >= tok.nbf * 1000

\* TokenManager.ValidateAccessToken: the Claims, or Nil for an error
ValidateAccessToken(tok, t) ==
    IF ParseWithClaims(tok, tm.access, t)
    THEN Some([user_id |-> tok.user_id, username |-> tok.username])
    ELSE Nil

\* TokenManager.ValidateRefreshToken: the RefreshClaims, or Nil for an error
ValidateRefreshToken(tok, t) ==
    IF ParseWithClaims(tok, tm.refresh, t)
    THEN Some([user_id |-> tok.user_id])
    ELSE Nil

\* AuthMiddleware.RequireAuth on a well-formed Bearer header carrying tok
RequireAuth(tok, t) ==
    IF ValidateAccessToken(tok, t) = Nil
    THEN [status |-> "unauthorized", user_id |-> Nil]
    ELSE [status |-> "next", user_id |-> Some(ValidateAccessToken(tok, t)[1].user_id)]

\* a refresh handler that mints the pair without looking the account up
RefreshTokenNoLookup(tok, t, accounts) ==
    IF ValidateRefreshToken(tok, t) = Nil
    THEN [status |-> "invalid_token", pair |-> Nil]
    ELSE [status |-> "ok",
          pair |-> Some(GenerateTokenPair(tok.user_id, Username(tok.user_id), t))]

\* UserHandler.RefreshToken on a non-empty refresh_token, the accounts table
\* holding the ids in accounts
RefreshToken(tok, t, accounts) ==
    IF ValidateRefreshToken(tok, t) = Nil
    THEN [status |-> "invalid_token", pair |-> Nil]
    ELSE IF tok.user_id \notin accounts
    THEN [status |-> "user_not_found", pair |-> Nil]
    ELSE [status |-> "ok",
          pair |-> Some(GenerateTokenPair(tok.user_id, Username(tok.user_id), t))]

TokenOut(op, tok, status, u, pair) ==
    [op |-> op, token |-> tok, status |-> status, user_id |-> u, pair |-> pair]

TokenIdle == TokenOut("idle", Nil, "ok", Nil, Nil)

InitTokenIdle ==
    /\ tm = NewTokenManager("s1", "s2")
    /\ tk_issued = {}
    /\ tk_out = TokenIdle

\* the tokens a client can present: both halves of every pair returned, and
\* each of them re-signed with a key the server does not hold
IssuedTokens == {p.access : p \in tk_issued} \cup {p.refresh : p \in tk_issued}
Presented == IssuedTokens \cup {[k EXCEPT !.sig = "forged"] : k \in IssuedTokens}

\* UserHandler.Login with the right password of account u
Login(u) ==
    /\ u \in users
    /\ Cardinality(tk_issued) < MaxPairs
    /\ tk_issued' = tk_issued \cup {GenerateTokenPair(u, Username(u), now)}
    /\ tk_out' = TokenOut("Login", Nil, "ok", Some(u),
                          Some(GenerateTokenPair(u, Username(u), now)))
    /\ UNCHANGED tm

ValidateAccessTokenCall(tok) ==
    /\ tk_out' = TokenOut("ValidateAccessToken", Some(tok),
                          IF ValidateAccessToken(tok, now) = Nil THEN "error" ELSE "ok",
                          IF ValidateAccessToken(tok, now) = Nil THEN Nil ELSE Some(tok.user_id),
                          Nil)
    /\ UNCHANGED <<tm, tk_issued>>

ValidateRefreshTokenCall(tok) ==
    /\ tk_out' = TokenOut("ValidateRefreshToken", Some(tok),
                          IF ValidateRefreshToken(tok, now) = Nil THEN "error" ELSE "ok",
                          IF ValidateRefreshToken(tok, now) = Nil THEN Nil ELSE Some(tok.user_id),
                          Nil)
    /\ UNCHANGED <<tm, tk_issued>>

RequireAuthCall(tok) ==
    /\ tk_out' = TokenOut("RequireAuth", Some(tok), RequireAuth(tok, now).status,
                          RequireAuth(tok, now).user_id, Nil)
    /\ UNCHANGED <<tm, tk_issued>>

RefreshTokenCall(tok) ==
    LET r == RefreshToken(tok, now, users) IN
    /\ r.pair # Nil => \/ r.pair[1] \in tk_issued
                       \/ Cardinality(tk_issued) < MaxPairs
    /\ tk_issued' = IF r.pair = Nil THEN tk_issued ELSE tk_issued \cup {r.pair[1]}
    /\ tk_out' = TokenOut("RefreshToken", Some(tok), r.status,
                          IF r.status = "ok" THEN Some(tok.user_id) ELSE Nil, r.pair)
    /\ UNCHANGED tm

\* clock readings that matter to the tokens: part of an access token's life
\* later, and the expiry instants of the tokens issued
TokenClockTargets ==
    {now + 5 * 60 * 1000} \cup {k.exp * 1000 : k \in IssuedTokens}

\* ------------------------------------------------------------------------
\* Sessions: rotation and logout
\* ------------------------------------------------------------------------
InitSessionIdle ==
    /\ tk_rot = <<>>
    /\ tk_logout = 0

\* rotations counted for refresh token tok so far
Rotations(tok) == IF tok \in DOMAIN tk_rot THEN tk_rot[tok] ELSE 0

\* UserHandler.RefreshToken, its accepted requests counted per token
Rotate(tok) ==
    /\ Rotations(tok) < MaxRotations
    /\ RefreshTokenCall(tok)
    /\ tk_rot' = IF RefreshToken(tok, now, users).status = "ok"
                 THEN [k \in DOMAIN tk_rot \cup {tok} |->
                          Rotations(k) + (IF k = tok THEN 1 ELSE 0)]
                 ELSE tk_rot
    /\ UNCHANGED tk_logout

\* a logout that replaces the signing secrets, so that no token issued
\* before it verifies
LogoutRevokes ==
    /\ tk_logout < MaxLogouts
    /\ tk_logout' = tk_logout + 1
    /\ tk_out' = TokenOut("Logout", Nil, "ok", Nil, Nil)
    /\ tm' = NewTokenManager("revoked", "revoked")
    /\ UNCHANGED <<tk_issued, tk_rot>>

\* UserHandler.Logout: answers 200 and touches nothing
Logout ==
    /\ tk_logout < MaxLogouts
    /\ tk_logout' = tk_logout + 1
    /\ tk_out' = TokenOut("Logout", Nil, "ok", Nil, Nil)
    /\ UNCHANGED <<tm, tk_issued, tk_rot>>

\* ------------------------------------------------------------------------
\* UserHandler.Register, one goroutine per request in flight
\* ------------------------------------------------------------------------
Usernames == {"alice", "bob"}
Registrants == {1, 2}

RegisterOut(name, status, code, id) ==
    [username |-> name, status |-> status, code |-> code, id |-> id]

InitRegister ==
    /\ reg_users = <<>>
    /\ reg_pc = [g \in Registrants |-> "idle"]
    /\ reg_out = [g \in Registrants |-> RegisterOut(<<>>, 0, "none", Nil)]

\* UserRepository.Exists: SELECT COUNT(*) ... WHERE username = ?
UserExists(name) == \E i \in DOMAIN reg_users : reg_users[i] = name

\* Register up to its Exists query, for a username and password that pass
\* validation: 409 when the name is in the table, else on to the insert
RegisterCheck(g, name) ==
    /\ reg_pc[g] = "idle"
    /\ IF UserExists(name)
       THEN /\ reg_out' = [reg_out EXCEPT ![g] =
                             RegisterOut(name, 409, "username_exists", Nil)]
            /\ UNCHANGED reg_pc
       ELSE /\ reg_out' = [reg_out EXCEPT ![g] = RegisterOut(name, 0, "none", Nil)]
            /\ reg_pc' = [reg_pc EXCEPT ![g] = "create"]
    /\ UNCHANGED reg_users

\* Register from UserRepository.Create on: the INSERT fails on the UNIQUE
\* constraint of column username, and any error of Create is answered with
\* ErrInternalServer; else the row gets the next id and the answer is 201
RegisterCreate(g) ==
    /\ reg_pc[g] = "create"
    /\ reg_pc' = [reg_pc EXCEPT ![g] = "idle"]
    /\ IF UserExists(reg_out[g].username)
       THEN /\ reg_out' = [reg_out EXCEPT ![g] =
                  RegisterOut(reg_out[g].username, 500, "internal_server_error", Nil)]
            /\ UNCHANGED reg_users
       ELSE /\ reg_users' = Append(reg_users, reg_out[g].username)
            /\ reg_out' = [reg_out EXCEPT ![g] =
                  RegisterOut(reg_out[g].username, 201, "none", Some(Len(reg_users) + 1))]

\* ------------------------------------------------------------------------
\* Validator: the registration request
\* ------------------------------------------------------------------------
UpperChars == {"A"}
LowerChars == {"a"}
DigitChars == {"1"}
NameChars == UpperChars \cup LowerChars \cup DigitChars \cup {"_", "-"}

ValidationError(field, message) == [field |-> field, message |-> message]

\* Validator.ValidateString: the first rule the value breaks, or Nil
ValidateString(value, fieldName, required, minLen, maxLen) ==
    IF required /\ value = <<>> THEN Some(ValidationError(fieldName, "is required"))
    ELSE IF value = <<>> /\ ~required THEN Nil
    ELSE IF Len(value) < minLen
    THEN Some(ValidationError(fieldName, "must be at least minLen characters"))
    ELSE IF maxLen > 0 /\ Len(value) > maxLen
    THEN Some(ValidationError(fieldName, "must be at most maxLen characters"))
    ELSE Nil

\* Validator.ValidateUsername
ValidateUsername(username) ==
    IF ValidateString(username, "username", TRUE, 3, 50) # Nil
    THEN ValidateString(username, "username", TRUE, 3, 50)
    ELSE IF \E i \in DOMAIN username : username[i] \notin NameChars
    THEN Some(ValidationError("username",
              "can only contain letters, numbers, underscores, and hyphens"))
    ELSE Nil

\* Validator.ValidatePassword: one error, for the first rule that fails
ValidatePassword(password) ==
    LET hasUpper == \E i \in DOMAIN password : password[i] \in UpperChars
        hasLower == \E i \in DOMAIN password : password[i] \in LowerChars
        hasNumber == \E i \in DOMAIN password : password[i] \in DigitChars
    IN  IF ValidateString(password, "password", TRUE, 8, 128) # Nil
        THEN ValidateString(password, "password", TRUE, 8, 128)
        ELSE IF ~hasUpper
        THEN Some(ValidationError("password", "must contain at least one uppercase letter"))
        ELSE IF ~hasLower
        THEN Some(ValidationError("password", "must contain at least one lowercase letter"))
        ELSE IF ~hasNumber
        THEN Some(ValidationError("password", "must contain at least one number"))
        ELSE Nil

\* Validator.ValidateUserRegistrationRequest: the errors of the two fields,
\* in order
ValidateUserRegistrationRequest(username, password) ==
    ValidateUsername(username) \o ValidatePassword(password)

\* the usernames and passwords of the requests validated
RegUsernames == {<<>>, <<"a", "b">>, <<"a", "_", "1">>, <<"a", "!", "1">>}
\* passwords of 0, 7 and 8 characters: three characters chosen freely, the
\* third repeated to the length
Repeat(c, n) == [i \in 1..n |-> c]
RegPasswords ==
    {<<>>} \cup {x \o Repeat(x[3], n) :
                    x \in [1..3 -> UpperChars \cup LowerChars \cup DigitChars],
                    n \in {4, 5}}

ValidateOut(op, username, password, errors) ==
    [op |-> op, username |-> username, password |-> password, errors |-> errors]

InitValidate == val_out = ValidateOut("idle", <<>>, <<>>, <<>>)

\* UserHandler.Register up to its validation
RegisterValidate(username, password) ==
    val_out' = ValidateOut("Register", username, password,
                           ValidateUserRegistrationRequest(username, password))

\* ------------------------------------------------------------------------
\* UserHandler.Login and what its response tells
\* ------------------------------------------------------------------------
LoginNames == {"", "alice", "bob"}
LoginPasswords == {NoPassword, Secret1, Wrong1}

APIError(code, message, status) == [code |-> code, message |-> message, status |-> status]

\* a Login that tells an unknown username from a wrong password
LoginTelling(username, password, table) ==
    IF username = "" \/ password = <<>>
    THEN APIError("validation_failed", "Username and password required", 400)
    ELSE IF username \notin DOMAIN table
    THEN APIError("user_not_found", "User not found", 404)
    ELSE IF ~VerifyPassword(password, table[username])
    THEN APIError("invalid_credentials", "Invalid username or password", 401)
    ELSE APIError("none", "ok", 200)

\* UserHandler.Login on a well-formed POST body, the users table being
\* table: the status, error code and message of its response
LoginResponse(username, password, table) ==
    IF username = "" \/ password = <<>>
    THEN APIError("validation_failed", "Username and password required", 400)
    ELSE IF username \notin DOMAIN table
    THEN APIError("invalid_credentials", "Invalid username or password", 401)
    ELSE IF ~VerifyPassword(password, table[username])
    THEN APIError("invalid_credentials", "Invalid username or password", 401)
    ELSE APIError("none", "ok", 200)

\* which of the cases a Login request falls in
LoginCase(username, password, table) ==
    IF username = "" \/ password = <<>> THEN "malformed"
    ELSE IF username \notin DOMAIN table THEN "unknown"
    ELSE IF table[username].of # password THEN "wrong"
    ELSE "ok"

LoginOut(username, case, response) ==
    [username |-> username, case |-> case, response |-> response]

InitLogin ==
    /\ lg_users = <<>>
    /\ lg_out = [k \in {1, 2} |-> LoginOut("", "idle", APIError("none", "idle", 0))]

\* UserHandler.Register succeeding: a row with the bcrypt hash, cost 14
Registered(username, password) ==
    /\ username \notin DOMAIN lg_users
    /\ lg_users' = [n \in DOMAIN lg_users \cup {username} |->
                       IF n = username THEN HashPasswordWithCost(password, 14)
                       ELSE lg_users[n]]
    /\ UNCHANGED lg_out

\* a Login request, its response kept in slot k
LoginRequest(k, username, password) ==
    /\ lg_out' = [lg_out EXCEPT ![k] =
                     LoginOut(username, LoginCase(username, password, lg_users),
                              LoginResponse(username, password, lg_users))]
    /\ UNCHANGED lg_users

\* ------------------------------------------------------------------------
\* PasteHandler.Create, one goroutine per request in flight
\* ------------------------------------------------------------------------
Creators == {1, 2}

\* the content of the requests of goroutine g
ContentOf(g) == IF g = 1 THEN "c1" ELSE "c2"

CreateOut(id, content, status) == [id |-> id, content |-> content, status |-> status]

InitCreate ==
    /\ cc_pc = [g \in Creators |-> "idle"]
    /\ cc_out = [g \in Creators |-> CreateOut(Nil, "", "idle")]

\* an INSERT OR REPLACE in place of the INSERT
PasteRepositoryCreateReplace(p) == [err |-> FALSE, store |-> Inserted(p)]

\* PasteRepository.Create: a plain INSERT, refused by the PRIMARY KEY when
\* the id is in the table
PasteRepositoryCreate(p) ==
    IF p.id \in DOMAIN pastes
    THEN [err |-> TRUE, store |-> pastes]
    ELSE [err |-> FALSE, store |-> Inserted(p)]

\* Create up to the return of GenerateWithCollisionCheck(h.pasteRepo.Exists),
\* for a request that passes validation
CreateDraw(g) ==
    /\ cc_pc[g] = "idle"
    /\ \E r \in AllocateID :
          IF r.err # "none"
          THEN /\ cc_out' = [cc_out EXCEPT ![g] =
                                CreateOut(Nil, ContentOf(g), "id_generation_failed")]
               /\ UNCHANGED cc_pc
          ELSE /\ cc_out' = [cc_out EXCEPT ![g] = CreateOut(r.id, ContentOf(g), "pending")]
               /\ cc_pc' = [cc_pc EXCEPT ![g] = "insert"]
    /\ UNCHANGED pastes

\* Create from h.pasteRepo.Create on: 500 for any error, else 201 with the id
CreateInsert(g) ==
    LET row == Paste(cc_out[g].id[1], cc_out[g].content, CurrentTimestamp(now),
                     Some(TimeAdd(now, DefaultExpiry)), Nil, Nil)
        res == PasteRepositoryCreate(row)
    IN  /\ cc_pc[g] = "insert"
        /\ cc_pc' = [cc_pc EXCEPT ![g] = "idle"]
        /\ pastes' = res.store
        /\ cc_out' = [cc_out EXCEPT ![g].status =
                         IF res.err THEN "internal_server_error" ELSE "created"]

\* ------------------------------------------------------------------------
\* The paste routes of main.go: POST /paste behind LimitPasteCreation,
\* GET /paste/{id} and GET /paste/{id}/raw behind LimitPasteRetrieval,
\* POST /paste/{id}/unlock behind no middleware.  One client, one request
\* in the middleware at a time.
\* ------------------------------------------------------------------------
LimitedRoutes == {"Create", "GetByID", "GetRaw"}

\* the allow... call the middleware of a route makes
KindOf(route) == IF route = "Create" THEN "paste" ELSE "retrieval"

RouteReq(route, id, password) == [route |-> route, id |-> id, password |-> password]

InitRoutes ==
    /\ rt_req = RouteReq("none", <<>>, <<>>)
    /\ rt_served = 0
    /\ rl_recent = [k \in Kinds |-> [cur |-> 0, prev |-> 0]]

\* whether the response just written carries paste content or the verdict
\* on a password
Tells(r) ==
    /\ r.op \in {"GetByID", "GetRaw", "GetByIDWithPassword"}
    /\ r.status \in {"ok", "invalid_password"}

\* LimitPasteCreation / LimitPasteRetrieval: the request enters the
\* middleware, which calls allowPasteCreation / allowPasteRetrieval
RouteCall(route, ip, id, password) ==
    /\ AllowCall(1, KindOf(route), ip)
    /\ rt_req' = RouteReq(route, id, password)
    /\ UNCHANGED <<rt_served, rl_recent, storeVars>>

RouteLock ==
    /\ AllowLock(1)
    /\ UNCHANGED <<routeVars, storeVars>>

RouteCheck ==
    /\ AllowCheck(1)
    /\ UNCHANGED <<routeVars, storeVars>>

RouteCount ==
    /\ AllowCount(1)
    /\ rl_recent' = [rl_recent EXCEPT ![rl_pc[1].kind].cur = @ + 1]
    /\ UNCHANGED <<rt_req, rt_served, storeVars>>

\* the allow... call returns: 429 when it answered false, else
\* next.ServeHTTP runs the handler of the route
RouteReturn ==
    /\ AllowReturn(1)
    /\ IF ~rl_pc[1].res
       THEN /\ resp' = Response(rt_req.route, Some(rt_req.id), Nil, rt_req.password,
                                <<>>, "rate_limited", Nil)
            /\ UNCHANGED <<pastes, users, nextUserID, now, ticks, gone>>
       ELSE IF rt_req.route = "Create"
       THEN \E alloc \in AllocateID : Create(alloc, Nil, "c1", rt_req.password, Never)
       ELSE IF rt_req.route = "GetByID"
       THEN GetByID(rt_req.id, rt_req.password)
       ELSE GetRaw(rt_req.id, rt_req.password)
    /\ rt_served' = IF Tells(resp') THEN rt_served + 1 ELSE rt_served
    /\ UNCHANGED <<rt_req, rl_recent>>

\* POST /paste/{id}/unlock: the handler, with no middleware before it
RouteUnlock(ip, id, password) ==
    /\ rt_served < MaxServed
    /\ GetByIDWithPassword(id, password)
    /\ rt_served' = IF Tells(resp') THEN rt_served + 1 ELSE rt_served
    /\ UNCHANGED <<rt_req, rl_recent, limiterVars>>

RouteAdvance ==
    /\ rl_now < MaxRouteTime
    /\ RlAdvance
    /\ rl_recent' = [k \in Kinds |-> [cur |-> 0, prev |-> rl_recent[k].cur]]
    /\ UNCHANGED <<rt_req, rt_served, storeVars>>

RouteCleanupRecv ==
    /\ CleanupRecv
    /\ UNCHANGED <<routeVars, storeVars>>

RouteCleanupLock ==
    /\ CleanupLock
    /\ UNCHANGED <<routeVars, storeVars>>

RouteCleanupSweep ==
    /\ CleanupSweep
    /\ rt_served' = 0
    /\ UNCHANGED <<rt_req, rl_recent, storeVars>>

\* ------------------------------------------------------------------------
\* The browser tab: localStorage, the axios interceptors, useAuth and
\* ViewPastePage
\* ------------------------------------------------------------------------
\* the HTTP status the API answers an outcome with
HTTPStatus(code) ==
    CASE code = "ok" -> 200
      [] code = "invalid_id" -> 400
      [] code = "password_required" -> 401
      [] code = "invalid_password" -> 403
      [] code = "paste_not_found" -> 404
      [] code = "paste_expired" -> 410
      [] OTHER -> 500

LocalStorage(access, refresh, user) ==
    [access_token |-> access, refresh_token |-> refresh, user |-> user]

NoSession == LocalStorage(Nil, Nil, Nil)

\* what AuthService.login stores of a LoginResponse for username
StoredSession(username) ==
    LocalStorage(Some(<<"access", username>>), Some(<<"refresh", username>>),
                 Some(username))

AuthState(user, isAuthenticated) == [user |-> user, isAuthenticated |-> isAuthenticated]

\* the effect of useAuth on mount: the state read back from localStorage
checkAuth(store) == AuthState(store.user, store.access_token # Nil)

PageState(path, showPasswordInput, paste, error) ==
    [path |-> path, showPasswordInput |-> showPasswordInput, paste |-> paste,
     error |-> error]

\* a page freshly loaded at path
Mounted(path) == PageState(path, FALSE, Nil, "none")

FeEvent(op, code, before, redirected) ==
    [op |-> op, code |-> code, before |-> before, redirected |-> redirected]

InitBrowser ==
    /\ ls = NoSession
    /\ fe_auth = AuthState(Nil, FALSE)
    /\ fe_page = Mounted(<<"/">>)
    /\ fe_ev = FeEvent("load", "none", NoSession, FALSE)

\* the response interceptor once the retries are used up, on a response
\* with this status: what it leaves in localStorage and whether it sends
\* the browser to /login
ResponseInterceptor(status, store) ==
    IF status = 401
    THEN [ls |-> NoSession, redirect |-> TRUE]
    ELSE [ls |-> store, redirect |-> FALSE]

\* the tab loaded anew at path
FeLoad(path) ==
    /\ fe_page' = Mounted(path)
    /\ fe_auth' = checkAuth(ls)
    /\ fe_ev' = FeEvent("load", "none", ls, FALSE)
    /\ UNCHANGED <<ls, storeVars, loginVars>>

\* ViewPastePage mounted for id by the router: getPaste(id) with no password
FeViewPaste(id) ==
    LET out == GetByIDOutcome(id, <<>>)
        icpt == ResponseInterceptor(HTTPStatus(out[1]), ls)
    IN  /\ GetByID(id, <<>>)
        /\ ls' = icpt.ls
        /\ fe_page' = IF icpt.redirect THEN Mounted(<<"/login">>)
                      ELSE PageState(<<"/paste", id>>, out[1] = "password_required",
                                     out[2], IF out[1] = "ok" THEN "none" ELSE out[1])
        /\ fe_auth' = IF icpt.redirect THEN checkAuth(icpt.ls) ELSE fe_auth
        /\ fe_ev' = FeEvent("view", out[1], ls, icpt.redirect)
        /\ UNCHANGED loginVars

\* useAuth.login
FeLogin(username, password) ==
    LET r == LoginResponse(username, password, lg_users)
        icpt == ResponseInterceptor(r.status, ls)
    IN  /\ IF r.status = 200
           THEN /\ ls' = StoredSession(username)
                /\ fe_auth' = AuthState(Some(username), TRUE)
                /\ fe_page' = fe_page
           ELSE /\ ls' = icpt.ls
                /\ fe_auth' = IF icpt.redirect THEN checkAuth(icpt.ls)
                              ELSE AuthState(Nil, FALSE)
                /\ fe_page' = IF icpt.redirect THEN Mounted(<<"/login">>) ELSE fe_page
        /\ fe_ev' = FeEvent("login", r.code, ls, r.status # 200 /\ icpt.redirect)
        /\ UNCHANGED <<storeVars, loginVars>>

\* useAuth.register with a well-formed request
FeRegister(username, password) ==
    /\ IF username \notin DOMAIN lg_users
       THEN /\ Registered(username, password)
            /\ ls' = ls
            /\ fe_auth' = AuthState(Some(username), TRUE)
            /\ fe_ev' = FeEvent("register", "none", ls, FALSE)
       ELSE /\ ls' = ResponseInterceptor(409, ls).ls
            /\ fe_auth' = AuthState(Nil, FALSE)
            /\ fe_ev' = FeEvent("register", "user_exists", ls, FALSE)
            /\ UNCHANGED loginVars
    /\ UNCHANGED <<fe_page, storeVars>>

\* useAuth.logout
FeLogout ==
    /\ ls' = NoSession
    /\ fe_auth' = AuthState(Nil, FALSE)
    /\ fe_ev' = FeEvent("logout", "none", ls, FALSE)
    /\ UNCHANGED <<fe_page, storeVars, loginVars>>

\* ------------------------------------------------------------------------
\* useUserPastes: the displayed list and the deletePaste calls in flight
\* ------------------------------------------------------------------------
MaxListed == 3
MaxPending == 2

\* the pastes of the account, as GET /user/pastes lists them
ListedPastes == [i \in 1..MaxListed |-> <<"p", i>>]

Without(list, id) ==
    LET keep(x) == x # id IN SelectSeq(list, keep)

DeleteCall(id, previousPastes) == [id |-> id, previousPastes |-> previousPastes]

InitUserPastes ==
    /\ up_listed = <<>>
    /\ up_pastes = <<>>
    /\ up_calls = {}
    /\ up_deleted = {}

\* fetchUserPastes answered with the first n pastes of the account
fetchUserPastes(n) ==
    /\ up_listed = <<>>
    /\ up_listed' = SubSeq(ListedPastes, 1, n)
    /\ up_pastes' = SubSeq(ListedPastes, 1, n)
    /\ UNCHANGED <<up_calls, up_deleted>>

\* deletePaste(id) up to its await: the snapshot and the optimistic update
deletePaste(id) ==
    /\ Cardinality(up_calls) < MaxPending
    /\ id \in Range(up_pastes)
    /\ up_calls' = up_calls \cup {DeleteCall(id, up_pastes)}
    /\ up_pastes' = Without(up_pastes, id)
    /\ UNCHANGED <<up_listed, up_deleted>>

\* the DELETE of call c answered 200
deletePasteResolved(c) ==
    /\ c \in up_calls
    /\ c.id \notin up_deleted
    /\ up_deleted' = up_deleted \cup {c.id}
    /\ up_calls' = up_calls \ {c}
    /\ UNCHANGED <<up_listed, up_pastes>>

\* the DELETE of call c failed: the catch block of deletePaste
deletePasteRejected(c) ==
    /\ c \in up_calls
    /\ up_pastes' = c.previousPastes
    /\ up_calls' = up_calls \ {c}
    /\ UNCHANGED <<up_listed, up_deleted>>

InitExtIdle ==
    InitSessionIdle /\ InitRegister /\ InitValidate /\ InitLogin /\ InitCreate /\ InitRoutes
    /\ InitBrowser /\ InitUserPastes

\* ------------------------------------------------------------------------
\* Repository operations no handler of the model reaches
\* ------------------------------------------------------------------------
\* UserRepository.Create: a new row of table users
UserCreate ==
    /\ nextUserID <= MaxUsers
    /\ users' = users \cup {nextUserID}
    /\ nextUserID' = nextUserID + 1
    /\ resp' = Response("UserCreate", Nil, Some(nextUserID), <<>>, <<>>, "ok", Nil)
    /\ UNCHANGED <<pastes, now, ticks, gone>>

\* account deletion with the foreign key not enforced: the row keeps its owner
OnUserDeleteNoAction(p, u) == p

\* what ON DELETE SET NULL makes of row p when account u is deleted
OnUserDelete(p, u) ==
    IF p.user_id = Some(u) THEN [p EXCEPT !.user_id = Nil] ELSE p

\* UserRepository.Delete, with foreign keys enforced
UserDelete(u) ==
    /\ u \in users
    /\ users' = users \ {u}
    /\ pastes' = [i \in DOMAIN pastes |-> OnUserDelete(pastes[i], u)]
    /\ resp' = Response("UserDelete", Nil, Some(u), <<>>, <<>>, "ok", Nil)
    /\ UNCHANGED <<nextUserID, now, ticks, gone>>

\* PasteRepository.Create called with UserID set: the row is inserted when
\* the id is new (PRIMARY KEY) and the account exists (FOREIGN KEY)
PasteRepoCreate(id, content, expiresAt, u) ==
    /\ id \notin DOMAIN pastes
    /\ u \in users
    /\ pastes' = Inserted(Paste(id, content, CurrentTimestamp(now), expiresAt, Nil, Some(u)))
    /\ resp' = Response("PasteRepoCreate", Some(id), Some(u), <<>>, <<>>, "ok", Nil)
    /\ UNCHANGED <<users, nextUserID, now, ticks, gone>>

\* the WHERE clause of PasteRepository.Update
UpdateMatches(p, t) == p.expires_at = Nil \/ SqlGtNow(p.expires_at[1], t)

\* PasteRepository.Update: content, expiry and hash of a row not yet expired
PasteRepoUpdate(id, content, expiresAt) ==
    /\ id \in DOMAIN pastes
    /\ IF UpdateMatches(pastes[id], now)
       THEN /\ pastes' = [pastes EXCEPT ![id].content = content, ![id].expires_at = expiresAt]
            /\ resp' = Response("PasteRepoUpdate", Some(id), Nil, <<>>, <<>>, "ok", Nil)
       ELSE /\ resp' = Response("PasteRepoUpdate", Some(id), Nil, <<>>, <<>>, "no_rows", Nil)
            /\ UNCHANGED pastes
    /\ UNCHANGED <<users, nextUserID, now, ticks, gone>>

\* the rows PasteRepository.DeleteExpired removes at clock reading t
ExpiredRows(t) ==
    {i \in DOMAIN pastes : pastes[i].expires_at # Nil /\ SqlLeqNow(pastes[i].expires_at[1], t)}

\* PasteRepository.DeleteExpired called on its own: the rows are removed
\* and their number (RowsAffected) is returned
DeleteExpired ==
    /\ pastes' = Removed(ExpiredRows(now))
    /\ gone' = gone \cup ExpiredRows(now)
    /\ resp' = Response("DeleteExpired", Nil, Nil, <<>>, <<>>, "ok",
                        Some(Cardinality(ExpiredRows(now))))
    /\ UNCHANGED <<users, nextUserID, now, ticks>>

\* CleanupService.cleanupExpiredPastes: one sweep
Sweep ==
    /\ pastes' = Removed(ExpiredRows(now))
    /\ gone' = gone \cup ExpiredRows(now)
    /\ resp' = Response("Sweep", Nil, Nil, <<>>, <<>>, "ok", Nil)
    /\ UNCHANGED <<users, nextUserID, now, ticks>>

\* ------------------------------------------------------------------------
\* CleanupService.  Every Start makes a ticker, stores it in s.ticker and
\* launches a goroutine that selects between s.ticker.C and s.stopChan.
\* The goroutine reads s.ticker at each select without synchronisation, so
\* after a later Start it may see its own ticker or any later one.
\* ------------------------------------------------------------------------
\* NewCleanupService: stopChan made and open, no ticker, no goroutine
InitSweeper ==
    /\ cs_g = <<>>
    /\ cs_tk = <<>>
    /\ cs_closed = FALSE
    /\ cs_ret = 0
    /\ cs_panic = FALSE
    /\ cs_ev = "none"

\* the tickers goroutine g may find in s.ticker
TickersOf(g) == g..Len(cs_tk)

\* CleanupService.Start
Start ==
    /\ ~cs_panic
    /\ Len(cs_g) < MaxStarts
    /\ cs_tk' = Append(cs_tk, [live |-> TRUE, c |-> FALSE])
    /\ cs_g' = Append(cs_g, "select")
    /\ UNCHANGED <<cs_closed, cs_ret, cs_panic, cs_ev>>

\* CleanupService.Stop: close(s.stopChan), which panics on a closed channel
Stop ==
    /\ ~cs_panic
    /\ cs_ret < MaxStops
    /\ IF cs_closed
       THEN /\ cs_panic' = TRUE
            /\ UNCHANGED <<cs_closed, cs_ret>>
       ELSE /\ cs_closed' = TRUE
            /\ cs_ret' = cs_ret + 1
            /\ UNCHANGED cs_panic
    /\ UNCHANGED <<cs_g, cs_tk, cs_ev>>

\* ticker j fires: a tick is put in its channel unless one waits there
CsTick(j) ==
    /\ ~cs_panic
    /\ cs_tk[j].live
    /\ cs_tk' = [cs_tk EXCEPT ![j].c = TRUE]
    /\ UNCHANGED <<cs_g, cs_closed, cs_ret, cs_panic, cs_ev>>

\* case <-s.ticker.C: goroutine g enters cleanupExpiredPastes
CsRecv(g, j) ==
    /\ ~cs_panic
    /\ cs_g[g] = "select"
    /\ j \in TickersOf(g)
    /\ cs_tk[j].c
    /\ cs_tk' = [cs_tk EXCEPT ![j].c = FALSE]
    /\ cs_g' = [cs_g EXCEPT ![g] = "sweep"]
    /\ UNCHANGED <<cs_closed, cs_ret, cs_panic, cs_ev>>

\* case <-s.stopChan: s.ticker.Stop(); return
CsExit(g, j) ==
    /\ ~cs_panic
    /\ cs_g[g] = "select"
    /\ cs_closed
    /\ j \in TickersOf(g)
    /\ cs_tk' = [cs_tk EXCEPT ![j].live = FALSE]
    /\ cs_g' = [cs_g EXCEPT ![g] = "done"]
    /\ UNCHANGED <<cs_closed, cs_ret, cs_panic, cs_ev>>

\* ------------------------------------------------------------------------
\* The clock
\* ------------------------------------------------------------------------
\* the readings the clock is advanced to: for each stored expiry the
\* instant itself and the start of the second after it
ClockTargets ==
    UNION {{pastes[i].expires_at[1],
                 (SecondOf(pastes[i].expires_at[1]) + 1) * 1000}
                : i \in {j \in DOMAIN pastes : pastes[j].expires_at # Nil}}

\* readings a millisecond after a stored expiry
LateClockTargets ==
    {pastes[i].expires_at[1] + 1 : i \in {j \in DOMAIN pastes : pastes[j].expires_at # Nil}}

AdvanceClock(t) ==
    /\ ticks < MaxTicks
    /\ t > now
    /\ now' = t
    /\ ticks' = ticks + 1
    /\ resp' = Response("AdvanceClock", Nil, Nil, <<>>, <<>>, "ok", Nil)
    /\ UNCHANGED <<pastes, users, nextUserID, gone>>

\* ------------------------------------------------------------------------
\* Spec: the store, its handlers and the clock
\* ------------------------------------------------------------------------
RequestIDs == IDs
ReadPasswords == {NoPassword, Secret1, Wrong1}
CreatePasswords == {NoPassword, Secret1}

\* the database after one registration
InitStore ==
    /\ pastes = <<>>
    /\ users = {1}
    /\ nextUserID = 2
    /\ now = Epoch
    /\ ticks = 0
    /\ resp = Response("Init", Nil, Nil, <<>>, <<>>, "ok", Nil)
    /\ gone = {}

ExpiryIdle == [kind |-> "idle", d |-> DurZero, msg |-> "idle"]
AllocIdle == [id |-> Nil, err |-> "idle", calls |-> 0]

InitExpiryIdle ==
    /\ expiry_in = <<>>
    /\ expiry_out = ExpiryIdle

InitAllocIdle ==
    /\ alloc_chk = <<>>
    /\ alloc_out = AllocIdle

InitIssueIdle ==
    /\ issued = <<>>
    /\ issue_pred = "idle"

InitAuxIdle == InitIssueIdle /\ InitLimiter /\ InitSweeper /\ InitTokenIdle /\ InitExtIdle

Init == InitStore /\ InitExpiryIdle /\ InitAllocIdle /\ InitAuxIdle

CreateStep ==
    /\ \E alloc \in AllocateID :
          \E caller \in Callers, content \in {"c1"},
             password \in CreatePasswords, expiry \in ExpiryInputs :
             Create(alloc, caller, content, password, expiry)
    /\ UNCHANGED <<expiryVars, allocVars, auxVars>>

GetByIDStep ==
    /\ \E id \in RequestIDs, password \in ReadPasswords : GetByID(id, password)
    /\ UNCHANGED <<expiryVars, allocVars, auxVars>>

GetRawStep ==
    /\ \E id \in RequestIDs, password \in ReadPasswords : GetRaw(id, password)
    /\ UNCHANGED <<expiryVars, allocVars, auxVars>>

UnlockStep ==
    /\ \E id \in RequestIDs, password \in ReadPasswords : GetByIDWithPassword(id, password)
    /\ UNCHANGED <<expiryVars, allocVars, auxVars>>

DeleteStep ==
    /\ \E caller \in Callers, id \in RequestIDs : Delete(caller, id)
    /\ UNCHANGED <<expiryVars, allocVars, auxVars>>

UserCreateStep == UserCreate /\ UNCHANGED <<expiryVars, allocVars, auxVars>>

UserDeleteStep ==
    /\ \E u \in users : UserDelete(u)
    /\ UNCHANGED <<expiryVars, allocVars, auxVars>>

PasteRepoCreateStep ==
    /\ \E id \in IDs, u \in users, expiresAt \in {Nil, Some(TimeAdd(now, Minute))} :
          PasteRepoCreate(id, "c1", expiresAt, u)
    /\ UNCHANGED <<expiryVars, allocVars, auxVars>>

PasteRepoUpdateStep ==
    /\ \E id \in DOMAIN pastes, expiresAt \in {Nil, Some(TimeAdd(now, Minute))} :
          PasteRepoUpdate(id, "c2", expiresAt)
    /\ UNCHANGED <<expiryVars, allocVars, auxVars>>

SweepStep == Sweep /\ UNCHANGED <<expiryVars, allocVars, auxVars>>

AdvanceClockStep ==
    /\ \E t \in ClockTargets : AdvanceClock(t)
    /\ UNCHANGED <<expiryVars, allocVars, auxVars>>

Next ==
    \/ CreateStep
    \/ GetByIDStep
    \/ GetRawStep
    \/ UnlockStep
    \/ DeleteStep
    \/ SweepStep
    \/ AdvanceClockStep

Spec == Init /\ [][Next]_vars

\* ------------------------------------------------------------------------
\* SpecOwner: accounts, the pastes they own and the repository operations
\* behind them; requests may present a malformed id
\* ------------------------------------------------------------------------
OwnerGetByIDStep ==
    /\ \E id \in IDs \cup {BadID} : GetByID(id, NoPassword)
    /\ UNCHANGED <<expiryVars, allocVars, auxVars>>

OwnerDeleteStep ==
    /\ \E caller \in Callers, id \in IDs \cup {BadID} : Delete(caller, id)
    /\ UNCHANGED <<expiryVars, allocVars, auxVars>>

NextOwner ==
    \/ UserCreateStep
    \/ UserDeleteStep
    \/ PasteRepoCreateStep
    \/ OwnerDeleteStep
    \/ OwnerGetByIDStep

SpecOwner == Init /\ [][NextOwner]_vars

\* ------------------------------------------------------------------------
\* SpecRepo: the repository's writes and the sweep under the clock
\* ------------------------------------------------------------------------
DeleteExpiredStep == DeleteExpired /\ UNCHANGED <<expiryVars, allocVars, auxVars>>

LateClockStep ==
    /\ \E t \in LateClockTargets : AdvanceClock(t)
    /\ UNCHANGED <<expiryVars, allocVars, auxVars>>

NextRepo ==
    \/ DeleteExpiredStep
    \/ LateClockStep
    \/ PasteRepoCreateStep
    \/ PasteRepoUpdateStep
    \/ SweepStep
    \/ AdvanceClockStep
    \/ OwnerGetByIDStep

SpecRepo == Init /\ [][NextRepo]_vars

\* ------------------------------------------------------------------------
\* SpecExpiry: ValidateExpiryDuration on every lexeme of at most MaxLen
\* characters over ExpiryAlphabet, and on "never"
\* ------------------------------------------------------------------------
ExpiryAlphabet == {"0", "1", "3", "5", "6", "m", "h", "d", "s", "-", "x"}

Lexemes == UNION {[1..n -> ExpiryAlphabet] : n \in 0..MaxLen} \cup {Never}

InitExpiry ==
    /\ InitStore
    /\ InitAllocIdle
    /\ InitAuxIdle
    /\ expiry_in \in Lexemes
    /\ expiry_out = ExpiryIdle

ValidateExpiryStep ==
    /\ expiry_out = ExpiryIdle
    /\ expiry_out' = ValidateExpiryDuration(expiry_in)
    /\ UNCHANGED <<expiry_in, storeVars, allocVars, auxVars>>

NextExpiry == ValidateExpiryStep

SpecExpiry == InitExpiry /\ [][NextExpiry]_vars

\* ------------------------------------------------------------------------
\* SpecAlloc: GenerateWithCollisionCheck against every existence predicate
\* whose answer depends on the attempt alone
\* ------------------------------------------------------------------------
Verdicts == {"true", "false", "error"}

\* the predicate that answers alloc_chk[k] to its k-th call
TapeChecker == [k \in 1..maxRetries |-> [id \in IDs |-> alloc_chk[k]]]

InitAlloc ==
    /\ InitStore
    /\ InitExpiryIdle
    /\ InitAuxIdle
    /\ alloc_chk \in [1..maxRetries -> Verdicts]
    /\ alloc_out = AllocIdle

AllocStep ==
    /\ alloc_out = AllocIdle
    /\ alloc_out' \in GenerateWithCollisionCheck(0, TapeChecker)
    /\ UNCHANGED <<alloc_chk, storeVars, expiryVars, auxVars>>

NextAlloc == AllocStep

SpecAlloc == InitAlloc /\ [][NextAlloc]_vars

\* ------------------------------------------------------------------------
\* SpecIssue: successive GenerateWithCollisionCheck calls on one generator,
\* against a predicate that reports every id absent ("absent") or one that
\* reports the ids already returned as existing ("store")
\* ------------------------------------------------------------------------
\* the existence predicate of SpecIssue, as GenerateWithCollisionCheck calls it
IssueChecker ==
    [k \in 1..maxRetries |->
        [id \in IDs |-> IF issue_pred = "store" /\ id \in Range(issued)
                        THEN "true" ELSE "false"]]

InitIssue ==
    /\ InitStore
    /\ InitExpiryIdle
    /\ InitAllocIdle
    /\ InitLimiter
    /\ InitSweeper
    /\ InitExtIdle
    /\ InitTokenIdle
    /\ issued = <<>>
    /\ issue_pred \in {"absent", "store"}

\* one more call; an id it returns is appended to issued
IssueStep ==
    /\ Len(issued) < MaxIssued
    /\ \E r \in GenerateWithCollisionCheck(0, IssueChecker) :
          /\ alloc_out' = r
          /\ issued' = IF r.err = "none" THEN Append(issued, r.id[1]) ELSE issued
    /\ UNCHANGED <<alloc_chk, issue_pred, storeVars, expiryVars, limiterVars, sweeperVars, tokenVars, extVars>>

NextIssue == IssueStep

SpecIssue == InitIssue /\ [][NextIssue]_vars

\* ------------------------------------------------------------------------
\* SpecLimiter: two request goroutines and the cleanup goroutine on one
\* RateLimiter
\* ------------------------------------------------------------------------
InitLimiterSpec ==
    /\ InitStore
    /\ InitExpiryIdle
    /\ InitAllocIdle
    /\ InitIssueIdle
    /\ InitLimiter
    /\ InitSweeper
    /\ InitExtIdle
    /\ InitTokenIdle

AllowCallStep ==
    /\ \E th \in {1, 2}, kind \in Kinds, ip \in Clients : AllowCall(th, kind, ip)
    /\ UNCHANGED <<storeVars, expiryVars, allocVars, issueVars, sweeperVars, tokenVars, extVars>>

AllowLockStep ==
    /\ \E th \in {1, 2} : AllowLock(th)
    /\ UNCHANGED <<storeVars, expiryVars, allocVars, issueVars, sweeperVars, tokenVars, extVars>>

AllowCheckStep ==
    /\ \E th \in {1, 2} : AllowCheck(th)
    /\ UNCHANGED <<storeVars, expiryVars, allocVars, issueVars, sweeperVars, tokenVars, extVars>>

AllowCountStep ==
    /\ \E th \in {1, 2} : AllowCount(th)
    /\ UNCHANGED <<storeVars, expiryVars, allocVars, issueVars, sweeperVars, tokenVars, extVars>>

AllowReturnStep ==
    /\ \E th \in {1, 2} : AllowReturn(th)
    /\ UNCHANGED <<storeVars, expiryVars, allocVars, issueVars, sweeperVars, tokenVars, extVars>>

RlAdvanceStep == RlAdvance /\ UNCHANGED <<storeVars, expiryVars, allocVars, issueVars, sweeperVars, tokenVars, extVars>>

CleanupRecvStep == CleanupRecv /\ UNCHANGED <<storeVars, expiryVars, allocVars, issueVars, sweeperVars, tokenVars, extVars>>

CleanupLockStep == CleanupLock /\ UNCHANGED <<storeVars, expiryVars, allocVars, issueVars, sweeperVars, tokenVars, extVars>>

CleanupSweepStep == CleanupSweep /\ UNCHANGED <<storeVars, expiryVars, allocVars, issueVars, sweeperVars, tokenVars, extVars>>

NextLimiter ==
    \/ AllowCallStep
    \/ AllowLockStep
    \/ AllowCheckStep
    \/ AllowCountStep
    \/ AllowReturnStep
    \/ RlAdvanceStep
    \/ CleanupRecvStep
    \/ CleanupLockStep
    \/ CleanupSweepStep

SpecLimiter == InitLimiterSpec /\ [][NextLimiter]_vars

\* ------------------------------------------------------------------------
\* cleanupExpiredPastes in a goroutine of CleanupService
\* ------------------------------------------------------------------------
\* s.pasteRepo.DeleteExpired() returns without error
CsSweepOk(g) ==
    /\ ~cs_panic
    /\ cs_g[g] = "sweep"
    /\ Sweep
    /\ cs_g' = [cs_g EXCEPT ![g] = "select"]
    /\ cs_ev' = "ok"
    /\ UNCHANGED <<cs_tk, cs_closed, cs_ret, cs_panic>>

\* a failed DeleteExpired that ends the goroutine
CsSweepFailEnds(g) ==
    /\ ~cs_panic
    /\ cs_g[g] = "sweep"
    /\ cs_g' = [cs_g EXCEPT ![g] = "done"]
    /\ cs_ev' = "failed"
    /\ UNCHANGED <<cs_tk, cs_closed, cs_ret, cs_panic, storeVars>>

\* s.pasteRepo.DeleteExpired() returns an error: logged, nothing deleted
CsSweepFail(g) ==
    /\ ~cs_panic
    /\ cs_g[g] = "sweep"
    /\ cs_g' = [cs_g EXCEPT ![g] = "select"]
    /\ cs_ev' = "failed"
    /\ UNCHANGED <<cs_tk, cs_closed, cs_ret, cs_panic, storeVars>>

\* ------------------------------------------------------------------------
\* SpecSweeper: Start and Stop calls, the goroutines and tickers they make,
\* and the store the sweeps work on; SpecSweeperFair adds fair ticking,
\* fair scheduling of the goroutines and sweeps that do not fail for ever
\* ------------------------------------------------------------------------
InitSweeperSpec ==
    /\ InitStore
    /\ InitExpiryIdle
    /\ InitAllocIdle
    /\ InitIssueIdle
    /\ InitLimiter
    /\ InitSweeper
    /\ InitExtIdle
    /\ InitTokenIdle

StartStep ==
    /\ Start
    /\ UNCHANGED <<storeVars, expiryVars, allocVars, issueVars, limiterVars, tokenVars, extVars>>

StopStep ==
    /\ Stop
    /\ UNCHANGED <<storeVars, expiryVars, allocVars, issueVars, limiterVars, tokenVars, extVars>>

CsTickStep ==
    /\ \E j \in 1..Len(cs_tk) : CsTick(j)
    /\ UNCHANGED <<storeVars, expiryVars, allocVars, issueVars, limiterVars, tokenVars, extVars>>

CsRecvStep ==
    /\ \E g \in 1..Len(cs_g), j \in 1..Len(cs_tk) : CsRecv(g, j)
    /\ UNCHANGED <<storeVars, expiryVars, allocVars, issueVars, limiterVars, tokenVars, extVars>>

CsExitStep ==
    /\ \E g \in 1..Len(cs_g), j \in 1..Len(cs_tk) : CsExit(g, j)
    /\ UNCHANGED <<storeVars, expiryVars, allocVars, issueVars, limiterVars, tokenVars, extVars>>

CsSweepOkStep ==
    /\ \E g \in 1..Len(cs_g) : CsSweepOk(g)
    /\ UNCHANGED <<expiryVars, allocVars, issueVars, limiterVars, tokenVars, extVars>>

CsSweepFailStep ==
    /\ \E g \in 1..Len(cs_g) : CsSweepFail(g)
    /\ UNCHANGED <<expiryVars, allocVars, issueVars, limiterVars, tokenVars, extVars>>

NextSweeper ==
    \/ StartStep
    \/ StopStep
    \/ CsTickStep
    \/ CsRecvStep
    \/ CsExitStep
    \/ CsSweepOkStep
    \/ CsSweepFailStep
    \/ PasteRepoCreateStep
    \/ AdvanceClockStep

SpecSweeper == InitSweeperSpec /\ [][NextSweeper]_vars

SpecSweeperFair ==
    /\ SpecSweeper
    /\ WF_vars(CsTickStep)
    /\ WF_vars(CsRecvStep)
    /\ WF_vars(CsExitStep)
    /\ SF_vars(CsSweepOkStep)

\* ------------------------------------------------------------------------
\* SpecToken: one TokenManager built from any two secrets, the accounts,
\* the clock, and the operations that issue and validate tokens
\* ------------------------------------------------------------------------
InitToken ==
    /\ InitStore
    /\ InitExpiryIdle
    /\ InitAllocIdle
    /\ InitIssueIdle
    /\ InitLimiter
    /\ InitSweeper
    /\ InitExtIdle
    /\ \E a \in Secrets, r \in Secrets : tm = NewTokenManager(a, r)
    /\ tk_issued = {}
    /\ tk_out = TokenIdle

tokenFrame == <<pastes, users, nextUserID, now, ticks, resp, gone>>

LoginStep ==
    /\ \E u \in users : Login(u)
    /\ UNCHANGED <<tokenFrame, expiryVars, allocVars, issueVars, limiterVars, sweeperVars, extVars>>

ValidateAccessTokenStep ==
    /\ \E tok \in Presented : ValidateAccessTokenCall(tok)
    /\ UNCHANGED <<tokenFrame, expiryVars, allocVars, issueVars, limiterVars, sweeperVars, extVars>>

ValidateRefreshTokenStep ==
    /\ \E tok \in Presented : ValidateRefreshTokenCall(tok)
    /\ UNCHANGED <<tokenFrame, expiryVars, allocVars, issueVars, limiterVars, sweeperVars, extVars>>

RequireAuthStep ==
    /\ \E tok \in Presented : RequireAuthCall(tok)
    /\ UNCHANGED <<tokenFrame, expiryVars, allocVars, issueVars, limiterVars, sweeperVars, extVars>>

RefreshTokenStep ==
    /\ \E tok \in Presented : RefreshTokenCall(tok)
    /\ UNCHANGED <<tokenFrame, expiryVars, allocVars, issueVars, limiterVars, sweeperVars, extVars>>

TokenClockStep ==
    /\ \E t \in TokenClockTargets : AdvanceClock(t)
    /\ UNCHANGED <<expiryVars, allocVars, auxVars>>

NextToken ==
    \/ UserCreateStep
    \/ UserDeleteStep
    \/ LoginStep
    \/ ValidateAccessTokenStep
    \/ ValidateRefreshTokenStep
    \/ RequireAuthStep
    \/ RefreshTokenStep
    \/ TokenClockStep

SpecToken == InitToken /\ [][NextToken]_vars

\* ------------------------------------------------------------------------
\* SpecSession: logins, rotations, logouts and authenticated requests under
\* the clock
\* ------------------------------------------------------------------------
exceptTokenSession == <<expiryVars, allocVars, issueVars, limiterVars, sweeperVars,
                        regVars, validateVars, loginVars, createVars, routeVars,
                        browserVars, userPastesVars>>

RotateStep ==
    /\ \E tok \in Presented : Rotate(tok)
    /\ UNCHANGED <<tokenFrame, exceptTokenSession>>

LogoutStep ==
    /\ Logout
    /\ UNCHANGED <<tokenFrame, exceptTokenSession>>

NextSession ==
    \/ LoginStep
    \/ RotateStep
    \/ LogoutStep
    \/ RequireAuthStep
    \/ TokenClockStep

SpecSession == InitToken /\ [][NextSession]_vars

\* ------------------------------------------------------------------------
\* SpecRegister: two Register requests at a time on one users table
\* ------------------------------------------------------------------------
exceptReg == <<storeVars, expiryVars, allocVars, issueVars, limiterVars,
               sweeperVars, tokenVars, sessionVars, validateVars, loginVars,
               createVars, routeVars,
               browserVars, userPastesVars>>

RegisterCheckStep ==
    /\ \E g \in Registrants, name \in Usernames : RegisterCheck(g, name)
    /\ UNCHANGED exceptReg

RegisterCreateStep ==
    /\ \E g \in Registrants : RegisterCreate(g)
    /\ UNCHANGED exceptReg

NextRegister == RegisterCheckStep \/ RegisterCreateStep

SpecRegister == Init /\ [][NextRegister]_vars

\* ------------------------------------------------------------------------
\* SpecValidate: the registration validator applied to bounded requests
\* ------------------------------------------------------------------------
RegisterValidateStep ==
    /\ \E username \in RegUsernames, password \in RegPasswords :
          RegisterValidate(username, password)
    /\ UNCHANGED <<storeVars, expiryVars, allocVars, issueVars, limiterVars,
                   sweeperVars, tokenVars, sessionVars, regVars, loginVars,
                   createVars, routeVars,
                   browserVars, userPastesVars>>

NextValidate == RegisterValidateStep

SpecValidate == Init /\ [][NextValidate]_vars

\* ------------------------------------------------------------------------
\* SpecLogin: registrations and Login requests on one users table
\* ------------------------------------------------------------------------
exceptLogin == <<storeVars, expiryVars, allocVars, issueVars, limiterVars,
                 sweeperVars, tokenVars, sessionVars, regVars, validateVars,
                 createVars, routeVars,
                 browserVars, userPastesVars>>

RegisteredStep ==
    /\ \E username \in LoginNames \ {""}, password \in {Secret1, Wrong1} :
          Registered(username, password)
    /\ UNCHANGED exceptLogin

LoginRequestStep ==
    /\ \E k \in {1, 2}, username \in LoginNames, password \in LoginPasswords :
          LoginRequest(k, username, password)
    /\ UNCHANGED exceptLogin

NextLogin == RegisteredStep \/ LoginRequestStep

SpecLogin == Init /\ [][NextLogin]_vars

\* ------------------------------------------------------------------------
\* SpecCreate: two Create requests at a time on one pastes table
\* ------------------------------------------------------------------------
exceptCreate == <<users, nextUserID, now, ticks, resp, gone, expiryVars, allocVars,
                  issueVars, limiterVars, sweeperVars, tokenVars, sessionVars,
                  regVars, validateVars, loginVars, routeVars,
                  browserVars, userPastesVars>>

CreateDrawStep ==
    /\ \E g \in Creators : CreateDraw(g)
    /\ UNCHANGED exceptCreate

CreateInsertStep ==
    /\ \E g \in Creators : CreateInsert(g)
    /\ UNCHANGED exceptCreate

NextCreate == CreateDrawStep \/ CreateInsertStep

SpecCreate == Init /\ [][NextCreate]_vars

\* ------------------------------------------------------------------------
\* SpecRoutes: one client on the paste routes, the limiter's cleanup
\* goroutine and its clock
\* ------------------------------------------------------------------------
exceptRoutes == <<expiryVars, allocVars, issueVars, sweeperVars, tokenVars,
                  sessionVars, regVars, validateVars, loginVars, createVars,
                  browserVars, userPastesVars>>

\* the requests of the client: creations of a protected paste, and reads
\* with the right and with a wrong password
RouteRequests ==
    {RouteReq("Create", <<>>, Secret1)} \cup
    {RouteReq(route, id, password) :
        route \in LimitedRoutes \ {"Create"}, id \in IDs, password \in {Secret1, Wrong1}}

RouteCallStep ==
    /\ \E q \in RouteRequests : RouteCall(q.route, "ip1", q.id, q.password)
    /\ UNCHANGED exceptRoutes

RouteLockStep == RouteLock /\ UNCHANGED exceptRoutes

RouteCheckStep == RouteCheck /\ UNCHANGED exceptRoutes

RouteCountStep == RouteCount /\ UNCHANGED exceptRoutes

RouteReturnStep == RouteReturn /\ UNCHANGED exceptRoutes

RouteUnlockStep ==
    /\ \E id \in IDs, password \in {Secret1, Wrong1} : RouteUnlock("ip1", id, password)
    /\ UNCHANGED exceptRoutes

RouteAdvanceStep == RouteAdvance /\ UNCHANGED exceptRoutes

RouteCleanupRecvStep == RouteCleanupRecv /\ UNCHANGED exceptRoutes

RouteCleanupLockStep == RouteCleanupLock /\ UNCHANGED exceptRoutes

RouteCleanupSweepStep == RouteCleanupSweep /\ UNCHANGED exceptRoutes

NextRoutes ==
    \/ RouteCallStep
    \/ RouteLockStep
    \/ RouteCheckStep
    \/ RouteCountStep
    \/ RouteReturnStep
    \/ RouteUnlockStep
    \/ RouteAdvanceStep
    \/ RouteCleanupRecvStep
    \/ RouteCleanupLockStep
    \/ RouteCleanupSweepStep

SpecRoutes == Init /\ [][NextRoutes]_vars

\* ------------------------------------------------------------------------
\* SpecBrowser: one browser tab against the API - pastes are created,
\* accounts registered, and the user loads pages, views pastes, logs in,
\* registers and logs out
\* ------------------------------------------------------------------------
exceptBrowser == <<expiryVars, allocVars, issueVars, limiterVars, sweeperVars,
                   tokenVars, sessionVars, regVars, validateVars, createVars,
                   routeVars, userPastesVars>>

FePaths == {<<"/">>, <<"/login">>}

FeCreateStep ==
    /\ \E alloc \in AllocateID, password \in CreatePasswords :
          Create(alloc, Nil, "c1", password, Never)
    /\ UNCHANGED <<exceptBrowser, loginVars, browserVars>>

FeLoadStep ==
    /\ \E path \in FePaths : FeLoad(path)
    /\ UNCHANGED exceptBrowser

FeViewPasteStep ==
    /\ \E id \in RequestIDs : FeViewPaste(id)
    /\ UNCHANGED exceptBrowser

FeLoginStep ==
    /\ \E username \in LoginNames \ {""}, password \in {Secret1, Wrong1} :
          FeLogin(username, password)
    /\ UNCHANGED exceptBrowser

FeRegisterStep ==
    /\ \E username \in LoginNames \ {""} : FeRegister(username, Secret1)
    /\ UNCHANGED exceptBrowser

FeLogoutStep == FeLogout /\ UNCHANGED exceptBrowser

NextBrowser ==
    \/ FeCreateStep
    \/ FeLoadStep
    \/ FeViewPasteStep
    \/ FeLoginStep
    \/ FeRegisterStep
    \/ FeLogoutStep

SpecBrowser == Init /\ [][NextBrowser]_vars

\* ------------------------------------------------------------------------
\* SpecUserPastes: the list of the account fetched once, then deletePaste
\* calls that overlap and settle in any order
\* ------------------------------------------------------------------------
exceptUserPastes == <<storeVars, expiryVars, allocVars, issueVars, limiterVars,
                      sweeperVars, tokenVars, sessionVars, regVars, validateVars,
                      loginVars, createVars, routeVars, browserVars>>

fetchUserPastesStep ==
    /\ \E n \in 1..MaxListed : fetchUserPastes(n)
    /\ UNCHANGED exceptUserPastes

deletePasteStep ==
    /\ \E id \in Range(ListedPastes) : deletePaste(id)
    /\ UNCHANGED exceptUserPastes

deletePasteResolvedStep ==
    /\ \E c \in up_calls : deletePasteResolved(c)
    /\ UNCHANGED exceptUserPastes

deletePasteRejectedStep ==
    /\ \E c \in up_calls : deletePasteRejected(c)
    /\ UNCHANGED exceptUserPastes

NextUserPastes ==
    \/ fetchUserPastesStep
    \/ deletePasteStep
    \/ deletePasteResolvedStep
    \/ deletePasteRejectedStep

SpecUserPastes == Init /\ [][NextUserPastes]_vars

\* ------------------------------------------------------------------------
\* Properties
\* ------------------------------------------------------------------------
Reads == {"GetByID", "GetRaw", "GetByIDWithPassword"}

\* the last request was a read of a stored paste
ReadOfStored == resp.op \in Reads /\ resp.id # Nil /\ resp.id[1] \in DOMAIN pastes

\* C1: a read (GetPaste, GetRawPaste, UnlockPaste with a password) of a
\* stored paste whose expires_at is not null and not later than the clock,
\* equality included, fails Expired and returns no content, swept or not
C1_ExpiredReadFails ==
    (/\ ReadOfStored
     /\ resp.op = "GetByIDWithPassword" => resp.pw # <<>>
     /\ pastes[resp.id[1]].expires_at # Nil
     /\ now >= pastes[resp.id[1]].expires_at[1])
    => (resp.status = "paste_expired" /\ resp.content = Nil)

\* C2: a read of a stored, non-expired, password-protected paste returns
\* content only when the password it carries is the one the hash was made
\* from; GetPaste answers PasswordRequired without a password and
\* InvalidPassword with a wrong one, and returns no content either time
C2_PasswordGate ==
    (/\ ReadOfStored
     /\ pastes[resp.id[1]].password_hash # Nil
     /\ (pastes[resp.id[1]].expires_at = Nil \/ now < pastes[resp.id[1]].expires_at[1]))
    => LET made_from == pastes[resp.id[1]].password_hash[1].of
       IN  /\ resp.content # Nil => (resp.pw # <<>> /\ resp.pw = made_from)
           /\ (resp.op = "GetByID" /\ resp.pw = <<>>)
                 => (resp.status = "password_required" /\ resp.content = Nil)
           /\ (resp.op = "GetByID" /\ resp.pw # <<>> /\ resp.pw # made_from)
                 => (resp.status = "invalid_password" /\ resp.content = Nil)

\* GetPaste with a wrong password on a protected paste that has not expired
C2_Witness ==
    /\ ReadOfStored
    /\ resp.op = "GetByID"
    /\ resp.pw = Wrong1
    /\ pastes[resp.id[1]].password_hash # Nil
    /\ pastes[resp.id[1]].password_hash[1].of = Secret1
    /\ pastes[resp.id[1]].expires_at # Nil
    /\ now < pastes[resp.id[1]].expires_at[1]
    /\ resp.status = "invalid_password"

\* C3: the paste CreatePaste has just stored has expires_at null or
\* strictly later than the instant of its creation
C3_ExpiryAfterCreation ==
    (resp.op = "Create" /\ resp.status = "created")
    => \/ pastes[resp.id[1]].expires_at = Nil
       \/ pastes[resp.id[1]].expires_at[1] > now

\* C4: a duration ValidateExpiryDuration returns is at least one minute and
\* at most 365 days; anything below or above is a validation error
C4_DurationWithinBounds ==
    expiry_out.kind = "duration"
    => (~DurLess(expiry_out.d, Minute) /\ ~DurLess(MaxExpiry, expiry_out.d))

\* the lexemes the format allows: empty, "never", digits then m, h or d
WellFormed(s) ==
    \/ s = <<>>
    \/ s = Never
    \/ /\ Len(s) >= 2
       /\ s[Len(s)] \in {"m", "h", "d"}
       /\ \A i \in 1..(Len(s) - 1) : s[i] \in Digits

\* C5: only the empty string, "never" and a whole number followed by m, h
\* or d are accepted; every other lexeme is rejected with the format error
C5_AcceptedLexemes ==
    expiry_out # ExpiryIdle
    => /\ expiry_out.kind # "error" => WellFormed(expiry_in)
       /\ ~WellFormed(expiry_in) => (expiry_out.kind = "error" /\ expiry_out.msg = "format")

\* C6: a paste created without an expiry argument expires 24 hours after
\* creation when the caller is anonymous, and never, with the caller as its
\* owner, when the caller is authenticated
C6_DefaultExpiryByCaller ==
    (resp.op = "Create" /\ resp.status = "created" /\ resp.expiry = <<>>)
    => IF resp.caller = Nil
       THEN /\ pastes[resp.id[1]].expires_at = Some(TimeAdd(now, DefaultExpiry))
            /\ pastes[resp.id[1]].user_id = Nil
       ELSE /\ pastes[resp.id[1]].expires_at = Nil
            /\ pastes[resp.id[1]].user_id = resp.caller

\* C7: a paste with an owner leaves the store only through DeletePaste
\* called by that owner; for any other caller the store is unchanged
C7_DeleteOwnerOnly ==
    [][\A id \in DOMAIN pastes :
          id \notin DOMAIN pastes'
          => /\ resp'.op = "Delete"
             /\ (pastes[id].user_id = Nil \/ resp'.caller = pastes[id].user_id)]_vars

\* C8: once a paste was deleted, swept or read as Expired, no later read
\* of its id returns content
C8_GoneStaysGone ==
    (resp.op \in Reads /\ resp.id # Nil /\ resp.id[1] \in gone) => resp.content = Nil

\* C9: deleting an account removes no paste and changes none, except that
\* the pastes the account owned lose their owner
C9_AccountDeleteOrphans ==
    [][\A u \in users :
          u \notin users'
          => /\ DOMAIN pastes' = DOMAIN pastes
             /\ \A id \in DOMAIN pastes :
                   pastes'[id] = IF pastes[id].user_id = Some(u)
                                 THEN [pastes[id] EXCEPT !.user_id = Nil]
                                 ELSE pastes[id]]_vars

\* an account was just deleted; a paste it owned is stored without owner
\* next to a paste another account still owns
C9_Witness ==
    /\ resp.op = "UserDelete"
    /\ \E i \in DOMAIN pastes : pastes[i].user_id = Nil
    /\ \E i \in DOMAIN pastes : pastes[i].user_id # Nil /\ pastes[i].user_id # resp.caller

\* the attempts at which the existence predicate does not answer true
Settling == {k \in 1..maxRetries : alloc_chk[k] # "true"}

\* C10: against a predicate that always answers true the allocator calls it
\* exactly maxRetries times and returns an error and no id; when the first
\* answer other than true comes at attempt k it has made exactly k calls,
\* and returns an id if that answer is false, the error if it is an error
C10_AllocatorCalls ==
    (alloc_out # AllocIdle /\ alloc_out.err # "generate")
    => IF Settling = {}
       THEN alloc_out.err = "exhausted" /\ alloc_out.calls = maxRetries /\ alloc_out.id = Nil
       ELSE LET k == CHOOSE n \in Settling : \A m \in Settling : n <= m
            IN  /\ alloc_out.calls = k
                /\ IF alloc_chk[k] = "false"
                   THEN alloc_out.err = "none" /\ alloc_out.id # Nil
                   ELSE alloc_out.err = "check" /\ alloc_out.id = Nil

\* the predicate answered true to all maxRetries attempts
C10_Witness ==
    /\ Settling = {}
    /\ alloc_out.err = "exhausted"
    /\ alloc_out.calls = maxRetries
    /\ alloc_out.id = Nil

\* the ids returned so far are pairwise distinct
Distinct(seq) == \A i, j \in 1..Len(seq) : i # j => seq[i] # seq[j]

C12_AtMostLimitAllowed ==
    /\ \A c \in Clients, k \in Kinds : rl_allowed[c][k] <= Limit(k)
    /\ \A th \in {1, 2} :
          rl_pc[th].pc = "count"
          => rl_allowed[rl_pc[th].ip][rl_pc[th].kind] < Limit(rl_pc[th].kind)

\* a creation call for a client is denied, the client's pasteLimit allowed
\* calls of this window behind it, while the other goroutine waits for the
\* mutex with a creation call for the same client
C12_Witness ==
    \E th, other \in {1, 2} :
       /\ th # other
       /\ rl_pc[th].pc = "ret" /\ ~rl_pc[th].res
       /\ rl_pc[th].kind = "paste"
       /\ rl_allowed[rl_pc[th].ip]["paste"] = pasteLimit
       /\ rl_pc[other].pc = "lock"
       /\ rl_pc[other].kind = "paste"
       /\ rl_pc[other].ip = rl_pc[th].ip

\* C13: a call that returns false changes no visitor record; a call that
\* returns true adds one to the caller's counter of its own kind, leaves
\* the caller's other counter and every other client's record unchanged;
\* and while a call is between its Lock and its Unlock nobody else changes
\* the map
C13_AllowFrame ==
    [][\A th \in {1, 2} :
          LET ip == rl_pc[th].ip
              kind == rl_pc[th].kind
              otherKind == IF kind = "paste" THEN "retrieval" ELSE "paste"
          IN  /\ (rl_pc[th].pc = "check" /\ rl_pc'[th].pc = "ret")
                    => visitors' = visitors
              /\ (rl_pc[th].pc = "check" /\ rl_pc'[th].pc = "count")
                    => /\ \A c \in DOMAIN visitors :
                             c \in DOMAIN visitors' /\ visitors'[c] = visitors[c]
                       /\ DOMAIN visitors' \subseteq DOMAIN visitors \cup {ip}
                       /\ ip \notin DOMAIN visitors
                             => (/\ Count(visitors'[ip], kind) = 0
                                 /\ Count(visitors'[ip], otherKind) = 0)
              /\ (rl_pc[th].pc = "count" /\ rl_pc'[th].pc = "ret")
                    => /\ DOMAIN visitors' = DOMAIN visitors
                       /\ \A c \in DOMAIN visitors \ {ip} : visitors'[c] = visitors[c]
                       /\ Count(visitors'[ip], kind) = Count(visitors[ip], kind) + 1
                       /\ Count(visitors'[ip], otherKind) = Count(visitors[ip], otherKind)
              /\ (rl_pc[th].pc \in {"check", "count", "ret"} /\ visitors' # visitors)
                    => rl_pc'[th] # rl_pc[th]]_vars

\* a retrieval call was just allowed for a client that has its creation
\* counter at the limit, with the other client in the map as well
C13_Witness ==
    \E th \in {1, 2} :
       /\ rl_pc[th].pc = "ret" /\ rl_pc[th].res
       /\ rl_pc[th].kind = "retrieval"
       /\ rl_pc[th].ip \in DOMAIN visitors
       /\ visitors[rl_pc[th].ip].pasteCount = pasteLimit
       /\ visitors[rl_pc[th].ip].retrievalCount = 1
       /\ \E c \in DOMAIN visitors : c # rl_pc[th].ip /\ visitors[c].pasteCount = 1

\* what every processed tick leaves behind: a client kept has both
\* counters at zero and was last allowed within the window, a client
\* removed was last allowed more than a window ago; and a call is denied
\* only with its limit of allowed calls since the last sweep behind it
AfterSweep ==
    /\ rl_ev.kind = "sweep"
          => /\ \A c \in DOMAIN visitors :
                   /\ visitors[c].pasteCount = 0
                   /\ visitors[c].retrievalCount = 0
                   /\ visitors[c].lastSeen >= rl_now - window
             /\ \A r \in rl_ev.removed :
                   r[1] \notin DOMAIN visitors /\ r[2] < rl_now - window
    /\ \A th \in {1, 2} :
          (rl_pc[th].pc = "ret" /\ ~rl_pc[th].res)
          => rl_allowed[rl_pc[th].ip][rl_pc[th].kind] >= Limit(rl_pc[th].kind)

\* C14 as stated: every processed tick leaves each client removed or with
\* both counters at zero, a denied client is allowed again after it, and a
\* client that has stopped calling is out of the map when two ticks have
\* been processed since its last call
C14_RemovedWithinTwo ==
    /\ AfterSweep
    /\ \A c \in DOMAIN visitors : rl_since[c] < 2

\* C14 amended: as above, but the client is out of the map when three
\* ticks have been processed since its last call (each tick processed
\* before the next one fires)
C14_RemovedWithinThree ==
    /\ AfterSweep
    /\ \A c \in DOMAIN visitors : rl_since[c] < 3

\* the third tick since a client's last call has just been processed and
\* removed it, two ticks having kept it
C14_Witness ==
    /\ rl_ev.kind = "sweep"
    /\ \E r \in rl_ev.removed : rl_since[r[1]] = 3

\* C15: once a Stop call has returned, no goroutine of the service is in
\* cleanupExpiredPastes, whether it entered before the call or after it
C15_StopQuiesces ==
    cs_ret > 0 => \A g \in 1..Len(cs_g) : cs_g[g] # "sweep"

\* C16: no Start or Stop call panics, and after any sequence of them at
\* most one goroutine of the service and at most one ticker are alive
C16_StartStopIdempotent ==
    /\ ~cs_panic
    /\ Cardinality({g \in 1..Len(cs_g) : cs_g[g] # "done"}) <= 1
    /\ Cardinality({j \in 1..Len(cs_tk) : cs_tk[j].live}) <= 1

\* the service was started and has neither been stopped nor panicked
Running == Len(cs_g) > 0 /\ ~cs_closed /\ ~cs_panic

\* paste id is stored and its expires_at has passed
Overdue(id) ==
    /\ id \in DOMAIN pastes
    /\ pastes[id].expires_at # Nil
    /\ now > pastes[id].expires_at[1]

\* C17: while the service is running, a failed DeleteExpired call is
\* followed by another call of it, and every stored paste whose expires_at
\* has passed is eventually removed (ticks, goroutines and successful
\* sweeps being fair)
C17_FailedSweepRetried ==
    /\ (Running /\ cs_ev = "failed")
          ~> ((\E g \in 1..Len(cs_g) : cs_g[g] = "sweep") \/ ~Running)
    /\ \A id \in IDs : (Running /\ Overdue(id)) ~> (id \notin DOMAIN pastes \/ ~Running)

\* a DeleteExpired call has just failed in the running service and left a
\* paste in the store whose expires_at has passed
C17_Witness ==
    /\ Running
    /\ cs_ev = "failed"
    /\ \E id \in IDs : Overdue(id)

\* C18: a DeleteExpired call removes exactly the stored pastes whose
\* expires_at is not null and earlier than the clock at the call, leaves
\* every other paste as it was, and returns the number it removed
C18_DeleteExpiredExact ==
    [][resp'.op = "DeleteExpired"
       => LET past == {id \in DOMAIN pastes :
                          /\ pastes[id].expires_at # Nil
                          /\ pastes[id].expires_at[1] < now}
          IN  /\ DOMAIN pastes' = DOMAIN pastes \ past
              /\ \A id \in DOMAIN pastes' : pastes'[id] = pastes[id]
              /\ resp'.content = Some(Cardinality(past))]_vars

\* C19: under every token manager, a refresh token that GenerateTokenPair
\* produced is rejected by ValidateAccessToken and by RequireAuth, and an
\* access token it produced is rejected by ValidateRefreshToken
C19_CrossRejection ==
    /\ (/\ tk_out.op \in {"ValidateAccessToken", "RequireAuth"}
        /\ tk_out.token # Nil
        /\ tk_out.token[1] \in {p.refresh : p \in tk_issued})
       => tk_out.status \in {"error", "unauthorized"}
    /\ (/\ tk_out.op = "ValidateRefreshToken"
        /\ tk_out.token # Nil
        /\ tk_out.token[1] \in {p.access : p \in tk_issued})
       => tk_out.status = "error"

\* C20: a RefreshToken request carrying a refresh token that is valid at
\* the clock of the request fails with user_not_found and issues no token
\* when the account the token names is not in the accounts table;
\* otherwise it returns a pair for that account whose access token expires
\* 15 minutes and whose refresh token expires 7 days after the clock of
\* the request, whatever the expiry of the token presented
C20_RotationFromNow ==
    [][(/\ tk_out' # tk_out
        /\ tk_out'.op = "RefreshToken"
        /\ ValidateRefreshToken(tk_out'.token[1], now) # Nil)
       => IF tk_out'.token[1].user_id \notin users
          THEN /\ tk_out'.status = "user_not_found"
               /\ tk_out'.pair = Nil
               /\ tk_issued' = tk_issued
          ELSE /\ tk_out'.status = "ok"
               /\ tk_out'.pair # Nil
               /\ tk_out'.pair[1].access.user_id = tk_out'.token[1].user_id
               /\ tk_out'.pair[1].refresh.user_id = tk_out'.token[1].user_id
               /\ tk_out'.pair[1].access.exp = SecondOf(now) + 15 * 60
               /\ tk_out'.pair[1].expires_at = SecondOf(now) + 15 * 60
               /\ tk_out'.pair[1].refresh.exp = SecondOf(now) + 7 * SecondsPerDay
               /\ ValidateAccessToken(tk_out'.pair[1].access, now) # Nil
               /\ ValidateRefreshToken(tk_out'.pair[1].refresh, now) # Nil]_vars

\* a refresh token still valid has been presented after its account was
\* deleted, and the request was refused
C20_Witness ==
    /\ tk_out.op = "RefreshToken"
    /\ tk_out.status = "user_not_found"
    /\ ValidateRefreshToken(tk_out.token[1], now) # Nil
    /\ tk_out.token[1].user_id \notin users

\* C21: every token issued is accepted until its own expiry - the access
\* token by RequireAuth, the refresh token by RefreshToken - however often
\* the refresh token has been rotated and whether or not Logout was called;
\* a rotation and a logout leave the secrets and the tables as they were
C21_ValidUntilExpiry ==
    /\ [](\A p \in tk_issued :
            /\ now < p.access.exp * 1000
                  => RequireAuth(p.access, now).status = "next"
            /\ now < p.refresh.exp * 1000
                  => RefreshToken(p.refresh, now, users).status = "ok")
    /\ [][(tk_out' # tk_out /\ tk_out'.op \in {"RefreshToken", "Logout"})
             => UNCHANGED <<tm, users, nextUserID, pastes>>]_vars

\* a refresh token is accepted for the second time, at a clock reading
\* later than its issue and after a Logout
C21_Witness ==
    /\ tk_out.op = "RefreshToken"
    /\ tk_out.status = "ok"
    /\ Rotations(tk_out.token[1]) >= 2
    /\ tk_logout >= 1
    /\ now > tk_out.token[1].nbf * 1000 + 999

\* C22: no two rows of table users share a username, and a Register call
\* that does not create an account - the name being taken, at its Exists
\* query or at its insert - is answered 409 username_exists
C22_RegisterConflict ==
    /\ \A i, j \in DOMAIN reg_users : reg_users[i] = reg_users[j] => i = j
    /\ \A g \in Registrants :
          (reg_pc[g] = "idle" /\ reg_out[g].status # 0 /\ reg_out[g].id = Nil)
             => (reg_out[g].status = 409 /\ reg_out[g].code = "username_exists")

\* the character rules a password of admissible length breaks, each rule
\* taken by itself
PasswordRulesBroken(password) ==
    (IF \E i \in DOMAIN password : password[i] \in UpperChars THEN {}
     ELSE {ValidationError("password", "must contain at least one uppercase letter")})
    \cup
    (IF \E i \in DOMAIN password : password[i] \in LowerChars THEN {}
     ELSE {ValidationError("password", "must contain at least one lowercase letter")})
    \cup
    (IF \E i \in DOMAIN password : password[i] \in DigitChars THEN {}
     ELSE {ValidationError("password", "must contain at least one number")})

\* C23: the response to a Register request reports every rule the request
\* breaks: for a password of admissible length (8 to 128), each of the
\* three character rules it fails is among the errors returned
C23_AllViolationsReported ==
    (val_out.op = "Register" /\ Len(val_out.password) >= 8 /\ Len(val_out.password) <= 128)
       => \A e \in PasswordRulesBroken(val_out.password) :
             \E i \in DOMAIN val_out.errors : val_out.errors[i] = e

\* C24: a Login request for a username that is not registered and a Login
\* request for a registered username with a wrong password get the same
\* status, error code and message
C24_LoginIndistinguishable ==
    \A i, j \in {1, 2} :
       (lg_out[i].case = "unknown" /\ lg_out[j].case = "wrong")
          => lg_out[i].response = lg_out[j].response

\* both kinds of request have been answered, for the same username: first
\* while it was unknown, then registered and with a wrong password
C24_Witness ==
    /\ lg_out[1].case = "unknown"
    /\ lg_out[2].case = "wrong"
    /\ lg_out[1].username = lg_out[2].username

\* C25: under any interleaving of Create requests a row once stored is
\* never replaced or changed, a request whose insert fails leaves the
\* table as it was, and the id of every 201 response is the row holding
\* that request's own content
C25_NoOverwrite ==
    /\ [](\A g \in Creators :
            cc_out[g].status = "created"
               => /\ cc_out[g].id[1] \in DOMAIN pastes
                  /\ pastes[cc_out[g].id[1]].content = cc_out[g].content)
    /\ [][/\ \A id \in DOMAIN pastes :
               id \in DOMAIN pastes' /\ pastes'[id] = pastes[id]
           /\ \A g \in Creators :
               (cc_pc[g] = "insert" /\ cc_pc'[g] = "idle"
                  /\ cc_out'[g].status = "internal_server_error")
                  => pastes' = pastes
           /\ Cardinality(DOMAIN pastes') <= Cardinality(DOMAIN pastes) + 1]_vars

\* both requests drew the same id before either inserted; one was answered
\* 201 and the other failed
C25_Witness ==
    /\ cc_out[1].status = "created"
    /\ cc_out[2].status = "internal_server_error"
    /\ cc_out[1].id = cc_out[2].id

\* C26: between two resets of the limiter a client obtains paste content
\* or a password verdict - through GetByID, GetRaw or GetByIDWithPassword -
\* at most retrievalLimit times
C26_ReadsBehindLimiter == rt_served <= retrievalLimit

\* C27: in any interval no longer than one window a client is allowed at
\* most pasteLimit creations and retrievalLimit retrievals: already the
\* calls allowed at two successive clock readings, half a window apart,
\* stay within the limit
C27_SlidingWindow ==
    \A k \in Kinds : rl_recent[k].cur + rl_recent[k].prev <= Limit(k)

\* C28: viewing a password-protected paste without a password ends in the
\* password prompt of the paste's page with localStorage as it was before,
\* and only a rejected login sends the browser to /login
C28_PromptKeepsSession ==
    /\ (fe_ev.op = "view" /\ fe_ev.code = "password_required")
          => /\ fe_page.path[1] = "/paste"
             /\ fe_page.showPasswordInput
             /\ ls = fe_ev.before
    /\ fe_ev.redirected => fe_ev.op = "login"

\* C29: whenever useAuth says isAuthenticated, localStorage holds an access
\* token
C29_AuthenticatedHasToken == fe_auth.isAuthenticated => ls.access_token # Nil

\* C30: once no deletePaste call is pending, the displayed list is the
\* fetched list without the pastes whose deletion succeeded
C30_SettledList ==
    up_calls = {} =>
        LET kept(x) == x \notin up_deleted IN up_pastes = SelectSeq(up_listed, kept)

====
